---------------------------- MODULE Spec2Model ----------------------------
(***************************************************************************)
(* The candidate-evaluation pipeline of lexnlp.extract.en.dates and the    *)
(* semantic validator of lexnlp.extract.en.date_validation.                *)
(*                                                                         *)
(* Python strings are sequences of one-character strings, so that the      *)
(* regular expressions, replace/strip/split and the length cap of the      *)
(* source are computed character by character.                             *)
(***************************************************************************)
EXTENDS Integers, Sequences, FiniteSets, TLC

(***************************************************************************)
(* Characters and the string methods the source uses.                      *)
(***************************************************************************)
DigitChars == <<"0", "1", "2", "3", "4", "5", "6", "7", "8", "9">>

UpperChars == <<"A", "B", "C", "D", "E", "F", "G", "H", "I", "J", "K", "L", "M",
                "N", "O", "P", "Q", "R", "S", "T", "U", "V", "W", "X", "Y", "Z">>

LowerChars == <<"a", "b", "c", "d", "e", "f", "g", "h", "i", "j", "k", "l", "m",
                "n", "o", "p", "q", "r", "s", "t", "u", "v", "w", "x", "y", "z">>

Range(s) == {s[i] : i \in DOMAIN s}

\* str.isdigit() of one character / the class \d
IsDigitChar(c) == c \in Range(DigitChars)

\* the class [A-Za-z]
IsAlphaChar(c) == c \in Range(UpperChars) \cup Range(LowerChars)

\* the class \s, and the characters str.strip() / str.split() treat as blank
IsSpaceChar(c) == c \in {" ", "\n", "\t"}

IndexIn(c, s) == CHOOSE i \in DOMAIN s : s[i] = c

\* str.lower() of one character
LowerChar(c) == IF c \in Range(UpperChars) THEN LowerChars[IndexIn(c, UpperChars)] ELSE c

\* str.lower()
Lower(s) == [i \in DOMAIN s |-> LowerChar(s[i])]

\* int() of one decimal digit
DigitValue(c) == IndexIn(c, DigitChars) - 1

\* str.isdigit(): non-empty and every character a digit
IsDigitStr(s) == Len(s) > 0 /\ \A i \in DOMAIN s : IsDigitChar(s[i])

RECURSIVE ToInt(_)
\* int(s) for a string of decimal digits
ToInt(s) == IF Len(s) = 0 THEN 0
            ELSE 10 * ToInt(SubSeq(s, 1, Len(s) - 1)) + DigitValue(s[Len(s)])

\* s.startswith(p)
StartsWith(s, p) == Len(p) <= Len(s) /\ SubSeq(s, 1, Len(p)) = p

\* the slice s[i:] counted from 1
From(s, i) == SubSeq(s, i, Len(s))

\* the slice s[a:b] of Python, for 0 <= a and 0 <= b
Slice(s, a, b) == SubSeq(s, a + 1, IF b > Len(s) THEN Len(s) ELSE b)

\* (sub in s)
Contains(s, sub) == \E i \in 1..(Len(s) - Len(sub) + 1) : SubSeq(s, i, i + Len(sub) - 1) = sub

RECURSIVE Replace(_, _)
\* s.replace(tok, ""): every non-overlapping occurrence, left to right
Replace(s, tok) ==
    IF Len(tok) = 0 \/ Len(s) < Len(tok) THEN s
    ELSE IF StartsWith(s, tok) THEN Replace(From(s, Len(tok) + 1), tok)
    ELSE <<s[1]>> \o Replace(Tail(s), tok)

RECURSIVE LStrip(_)
LStrip(s) == IF Len(s) > 0 /\ IsSpaceChar(s[1]) THEN LStrip(Tail(s)) ELSE s

RECURSIVE RStrip(_)
RStrip(s) == IF Len(s) > 0 /\ IsSpaceChar(s[Len(s)]) THEN RStrip(SubSeq(s, 1, Len(s) - 1)) ELSE s

\* str.strip()
Strip(s) == RStrip(LStrip(s))

RECURSIVE TakeWord(_)
\* the leading run of non-blank characters
TakeWord(s) == IF Len(s) = 0 \/ IsSpaceChar(s[1]) THEN <<>> ELSE <<s[1]>> \o TakeWord(Tail(s))

RECURSIVE Split(_)
\* str.split(): the whitespace-delimited tokens
Split(s) ==
    LET t == LStrip(s)
        w == TakeWord(t)
    IN IF Len(t) = 0 THEN <<>> ELSE <<w>> \o Split(From(t, Len(w) + 1))

RECURSIVE JoinWith(_, _)
\* sep.join(words)
JoinWith(words, sep) ==
    IF Len(words) = 0 THEN <<>>
    ELSE IF Len(words) = 1 THEN words[1]
    ELSE words[1] \o sep \o JoinWith(Tail(words), sep)

RECURSIVE Concat(_)
\* "".join(words)
Concat(words) == IF Len(words) = 0 THEN <<>> ELSE words[1] \o Concat(Tail(words))

\* list.count(x)
Count(list, x) == Cardinality({i \in DOMAIN list : list[i] = x})

RECURSIVE InsertByLen(_, _)
\* insert w behind every element at least as long: a stable descending order
InsertByLen(sorted, w) ==
    IF Len(sorted) = 0 THEN <<w>>
    ELSE IF Len(sorted[1]) >= Len(w) THEN <<sorted[1]>> \o InsertByLen(Tail(sorted), w)
    ELSE <<w>> \o sorted

RECURSIVE SortByLenDesc(_)
\* sorted(list, key=len, reverse=True)
SortByLenDesc(list) ==
    IF Len(list) = 0 THEN <<>>
    ELSE InsertByLen(SortByLenDesc(SubSeq(list, 1, Len(list) - 1)), list[Len(list)])

(***************************************************************************)
(* The data model: token properties, candidates, outcomes, parsed dates.   *)
(***************************************************************************)
\* Optional[str] reason: None
NoReason == "None"

\* Optional[datetime]: None (the collaborator found nothing, or no date yet)
NoDate == [kind |-> "none", year |-> 0, month |-> 0, day |-> 0, hour |-> 0, minute |-> 0,
           tz_ok |-> TRUE]

\* a datetime.datetime; tz_ok is FALSE when its tzinfo makes isoformat() raise ValueError
DateTime(y, m, d, hh, mm, ok) ==
    [kind |-> "datetime", year |-> y, month |-> m, day |-> d, hour |-> hh, minute |-> mm,
     tz_ok |-> ok]

\* a datetime.date: it carries no hour, minute or tzinfo
DateOnly(y, m, d) ==
    [kind |-> "date", year |-> y, month |-> m, day |-> d, hour |-> 0, minute |-> 0,
     tz_ok |-> TRUE]

\* the props dictionary of one tokenizer match; `dict` tells which dictionary
\* object holds the items: the one the tokenizer returned, or a copy of it
Props(months, digits, digits_modifier, days, delimiters, extra_tokens) ==
    [months |-> months, digits |-> digits, digits_modifier |-> digits_modifier,
     days |-> days, delimiters |-> delimiters, extra_tokens |-> extra_tokens,
     dict |-> "tokenizer"]

\* CandidateDate(...) with __post_init__: normalized_text starts as raw_text
CandidateDate(raw_text, span, props, index) ==
    [raw_text |-> raw_text, span |-> span, props |-> props, index |-> index,
     normalized_text |-> raw_text]

\* CandidateOutcome(candidate, accepted, date, reason); the candidate is held by
\* reference (its index), as the outcome and the iterator share one object
CandidateOutcome(candidate, accepted, date, reason) ==
    [candidate |-> candidate.index, accepted |-> accepted, date |-> date, reason |-> reason]

DATE_MAX_LENGTH == 40

EN_MONTHS == <<
    <<<<"j", "a", "n", "u", "a", "r", "y">>, <<"j", "a", "n">>>>,
    <<<<"f", "e", "b", "r", "u", "a", "r", "y">>, <<"f", "e", "b">>, <<"f", "e", "b", "r">>>>,
    <<<<"m", "a", "r", "c", "h">>, <<"m", "a", "r">>>>,
    <<<<"a", "p", "r", "i", "l">>, <<"a", "p", "r">>>>,
    <<<<"m", "a", "y">>>>,
    <<<<"j", "u", "n", "e">>, <<"j", "u", "n">>>>,
    <<<<"j", "u", "l", "y">>, <<"j", "u", "l">>>>,
    <<<<"a", "u", "g", "u", "s", "t">>, <<"a", "u", "g">>>>,
    <<<<"s", "e", "p", "t", "e", "m", "b", "e", "r">>, <<"s", "e", "p">>, <<"s", "e", "p", "t">>>>,
    <<<<"o", "c", "t", "o", "b", "e", "r">>, <<"o", "c", "t">>>>,
    <<<<"n", "o", "v", "e", "m", "b", "e", "r">>, <<"n", "o", "v">>>>,
    <<<<"d", "e", "c", "e", "m", "b", "e", "r">>, <<"d", "e", "c">>>>
>>

\* MONTH_BY_NAME.get(name): the month number, 0 standing for None
MONTH_BY_NAME(name) ==
    IF \E ix \in DOMAIN EN_MONTHS : name \in Range(EN_MONTHS[ix])
    THEN CHOOSE ix \in DOMAIN EN_MONTHS : name \in Range(EN_MONTHS[ix])
    ELSE 0

\* a faulty variant of _copy_date_props: the tokenizer's dictionary itself
_copy_date_props_same_dict(date_props) == date_props

\* a new dictionary with the same keys and copies of the lists
_copy_date_props(date_props) ==
    [key \in DOMAIN date_props |-> IF key = "dict" THEN "copy" ELSE date_props[key]]

\* an assignment to a key of a candidate's props reaches the tokenizer's result
\* when the candidate holds the tokenizer's dictionary and not a copy
WriteThrough(dates, position, props) ==
    IF props.dict = "tokenizer" THEN [dates EXCEPT ![position].props = props] ELSE dates

(***************************************************************************)
(* Context normalizer.                                                     *)
(***************************************************************************)
\* a faulty variant of _normalize_day_of: the previous outcome's verdict is not
\* looked at
_normalize_day_of_any_verdict(candidate, has_previous, previous_candidate, previous_outcome) ==
    LET props == candidate.props
        extra_tokens == props.extra_tokens
        has_of_token == \E i \in DOMAIN extra_tokens : Lower(extra_tokens[i]) = <<"o", "f">>
        unchanged == [candidate |-> candidate, previous_candidate |-> previous_candidate]
    IN  IF Len(extra_tokens) = 0 THEN unchanged
        ELSE IF ~has_of_token \/ ~has_previous THEN unchanged
        ELSE LET previous_modifiers == previous_candidate.props.digits_modifier
             IN IF Len(previous_modifiers) # 1 THEN unchanged
                ELSE LET modifier_token == previous_modifiers[Len(previous_modifiers)]
                         normalized_modifier ==
                             Replace(Replace(Replace(Replace(modifier_token,
                                 <<"s", "t">>), <<"n", "d">>), <<"r", "d">>), <<"t", "h">>)
                     IN [candidate |->
                            [candidate EXCEPT
                                !.props.digits_modifier = previous_modifiers \o @,
                                !.normalized_text = normalized_modifier \o @],
                         previous_candidate |->
                            [previous_candidate EXCEPT
                                !.props.digits_modifier =
                                    SubSeq(previous_modifiers, 1, Len(previous_modifiers) - 1)]]

\* has_previous is FALSE when previous_candidate / previous_outcome is None.
\* The result holds both objects the call may have changed.
_normalize_day_of(candidate, has_previous, previous_candidate, previous_outcome) ==
    LET props == candidate.props
        extra_tokens == props.extra_tokens
        has_of_token == \E i \in DOMAIN extra_tokens : Lower(extra_tokens[i]) = <<"o", "f">>
        unchanged == [candidate |-> candidate, previous_candidate |-> previous_candidate]
    IN  IF Len(extra_tokens) = 0 THEN unchanged
        ELSE IF ~has_of_token \/ ~has_previous THEN unchanged
        ELSE IF previous_outcome.accepted THEN unchanged
        ELSE LET previous_modifiers == previous_candidate.props.digits_modifier
             IN IF Len(previous_modifiers) # 1 THEN unchanged
                ELSE LET modifier_token == previous_modifiers[Len(previous_modifiers)]
                         normalized_modifier ==
                             Replace(Replace(Replace(Replace(modifier_token,
                                 <<"s", "t">>), <<"n", "d">>), <<"r", "d">>), <<"t", "h">>)
                     IN [candidate |->
                            [candidate EXCEPT
                                !.props.digits_modifier = previous_modifiers \o @,
                                !.normalized_text = normalized_modifier \o @],
                         previous_candidate |->
                            [previous_candidate EXCEPT
                                !.props.digits_modifier =
                                    SubSeq(previous_modifiers, 1, Len(previous_modifiers) - 1)]]

(***************************************************************************)
(* Heuristic rejection engine.                                             *)
(***************************************************************************)
\* re.match(r"\d{1,2}\s+\d{1,2}", text)
MatchDoubleNumbers(text) ==
    \E i \in 1..2 : \E j \in (i + 1)..(Len(text) - 1) :
        /\ \A k \in 1..i : IsDigitChar(text[k])
        /\ \A k \in (i + 1)..j : IsSpaceChar(text[k])
        /\ IsDigitChar(text[j + 1])

\* a faulty variant of MatchNumericDate: the pattern \d{1,2}\.\d{2}\.\d{2,4}
MatchNumericDate_short_day(text) ==
    \E d \in 1..2 :
        /\ Len(text) >= d + 6
        /\ \A k \in (1..d) \cup {d + 2, d + 3, d + 5, d + 6} : IsDigitChar(text[k])
        /\ text[d + 1] = "." /\ text[d + 4] = "."

\* re.match(r"\d{2}\.\d{2}\.\d{2,4}", text)
MatchNumericDate(text) ==
    /\ Len(text) >= 8
    /\ \A k \in {1, 2, 4, 5, 7, 8} : IsDigitChar(text[k])
    /\ text[3] = "." /\ text[6] = "."

\* re.search(r"\d{2,4}\.\s*[A-Za-z]", text)
SearchNumberDotWord(text) ==
    \E p \in 1..(Len(text) - 3) : \E q \in (p + 3)..Len(text) :
        /\ IsDigitChar(text[p]) /\ IsDigitChar(text[p + 1])
        /\ text[p + 2] = "."
        /\ \A k \in (p + 3)..(q - 1) : IsSpaceChar(text[k])
        /\ IsAlphaChar(text[q])

\* the `if ...: return reason` statements of _reject_impossible_formats, in
\* source order: whether the condition holds, and the reason returned
ImpossibleRules(candidate) ==
    LET props == candidate.props
        text == candidate.normalized_text
        num_month == Len(props.months)
        num_digits_modifier == Len(props.digits_modifier)
        num_digits == Len(props.digits)
        num_days == Len(props.days)
        delimiters == props.delimiters
        num_slash == Count(delimiters, <<"/">>)
        num_point == Count(delimiters, <<".">>)
        num_hyphen == Count(delimiters, <<"-">>)
        extra_tokens == props.extra_tokens
        found_triple == \E i \in DOMAIN props.digits : Len(props.digits[i]) = 3
        found_double_zero ==
            \E i \in DOMAIN props.digits : StartsWith(props.digits[i], <<"0", "0">>)
        month_string == Lower(Concat(props.months))
        rule(holds, reason) == [holds |-> holds, reason |-> reason]
    IN  << rule(num_month > 1, "multiple_month_tokens"),
           rule(/\ num_month = 1 /\ Len(extra_tokens) > 0
                /\ Contains(text, props.months[1] \o extra_tokens[Len(extra_tokens)]),
                "month_followed_by_word"),
           rule(num_digits_modifier > 0 /\ num_digits = 0, "modifier_without_digits"),
           rule(num_days > 0 /\ num_digits = 0, "day_without_digits"),
           rule(num_month = 0 /\ num_digits_modifier = 0 /\ num_digits <= 1,
                "insufficient_components"),
           rule(MatchDoubleNumbers(text), "ambiguous_double_numbers"),
           rule(num_point > 0 /\ num_month = 0 /\ ~MatchNumericDate(text),
                "decimal_without_month"),
           rule(SearchNumberDotWord(text), "number_dot_word"),
           rule((num_slash = 1 \/ num_hyphen = 1) /\ num_digits > 2, "fraction_like_number"),
           rule(found_triple \/ found_double_zero, "invalid_digit_length"),
           rule(num_digits = 0 /\ num_days = 0 /\ month_string = <<"m", "a", "y">>,
                "standalone_may"),
           rule(/\ num_digits > 0 /\ (num_point + num_slash + num_hyphen) > 0
                /\ month_string = <<"m", "a", "y">>,
                "punctuated_may") >>

\* a faulty variant of FirstMatch: the reason of the last rule that holds, as if
\* the statements assigned the reason instead of returning it
LastMatch(rules) ==
    LET matching == {i \in DOMAIN rules : rules[i].holds}
    IN  IF matching = {} THEN NoReason
        ELSE rules[CHOOSE i \in matching : \A j \in matching : i >= j].reason

\* a chain of `if ...: return reason` ending in `return None`: the reason of the
\* first rule that holds
FirstMatch(rules) ==
    LET matching == {i \in DOMAIN rules : rules[i].holds}
    IN  IF matching = {} THEN NoReason
        ELSE rules[CHOOSE i \in matching : \A j \in matching : i <= j].reason

\* a faulty variant of _reject_impossible_formats: the decimal test comes before
\* the test for two leading numbers
_reject_impossible_formats_swapped(candidate) ==
    LET rules == ImpossibleRules(candidate)
    IN FirstMatch([rules EXCEPT ![6] = rules[7], ![7] = rules[6]])

_reject_impossible_formats(candidate) == FirstMatch(ImpossibleRules(candidate))

RECURSIVE RemoveTokens(_, _)
\* the loop of _normalize_tokens over the sorted extra tokens
RemoveTokens(text, tokens) ==
    IF Len(tokens) = 0 THEN text
    ELSE IF Lower(tokens[1]) \in {<<"t", "o">>, <<"t">>} THEN RemoveTokens(text, Tail(tokens))
    ELSE RemoveTokens(Replace(text, tokens[1]), Tail(tokens))

\* a faulty variant of _normalize_tokens: the tokens are taken in the order given
_normalize_tokens_unsorted(candidate) ==
    LET extra_tokens == candidate.props.extra_tokens
    IN [candidate EXCEPT
            !.normalized_text = Strip(RemoveTokens(candidate.normalized_text, extra_tokens)),
            !.props.extra_tokens = <<>>]

_normalize_tokens(candidate) ==
    LET extra_tokens == SortByLenDesc(candidate.props.extra_tokens)
    IN [candidate EXCEPT
            !.normalized_text = Strip(RemoveTokens(candidate.normalized_text, extra_tokens)),
            !.props.extra_tokens = <<>>]

\* a faulty variant of PostNormalizationRules: a text of DATE_MAX_LENGTH
\* characters is too long already
PostNormalizationRules_at_cap(candidate) ==
    LET text == candidate.normalized_text
        match_delims == Range(Concat(candidate.props.delimiters))
        bad_delims == {",", " ", "\n", "\t"}
        len_diff_set == Cardinality(match_delims \ bad_delims)
        num_month == Len(candidate.props.months)
    IN  << [holds |-> Len(text) >= DATE_MAX_LENGTH, reason |-> "exceeds_max_length"],
           [holds |-> len_diff_set = 0 /\ num_month = 0, reason |-> "digits_without_month"] >>

\* the two `if ...: return reason` statements of _reject_post_normalization
PostNormalizationRules(candidate) ==
    LET text == candidate.normalized_text
        match_delims == Range(Concat(candidate.props.delimiters))
        bad_delims == {",", " ", "\n", "\t"}
        len_diff_set == Cardinality(match_delims \ bad_delims)
        num_month == Len(candidate.props.months)
    IN  << [holds |-> Len(text) > DATE_MAX_LENGTH, reason |-> "exceeds_max_length"],
           [holds |-> len_diff_set = 0 /\ num_month = 0, reason |-> "digits_without_month"] >>

\* a faulty variant of _reject_post_normalization: the length is not looked at
_reject_post_normalization_any_length(candidate) ==
    FirstMatch(Tail(PostNormalizationRules(candidate)))

_reject_post_normalization(candidate) == FirstMatch(PostNormalizationRules(candidate))

(***************************************************************************)
(* Semantic validator (date_validation.py).                                *)
(***************************************************************************)
\* None of Optional[int]
NoInt == -1

_ordinal_to_cardinal(value) ==
    LET digits == SelectSeq(value, IsDigitChar)
    IN IF Len(digits) > 0 THEN ToInt(digits) ELSE NoInt

_collect_candidate_values(date_props) ==
    LET lookup(month) == MONTH_BY_NAME(Lower(month))
        truthy(value) == value # NoInt /\ value # 0
        digit_strings == SelectSeq(date_props.digits, IsDigitStr)
    IN [digits |-> [i \in DOMAIN digit_strings |-> ToInt(digit_strings[i])],
        months |-> SelectSeq([i \in DOMAIN date_props.months |-> lookup(date_props.months[i])],
                             truthy),
        modifiers |-> SelectSeq([i \in DOMAIN date_props.digits_modifier |->
                                    _ordinal_to_cardinal(date_props.digits_modifier[i])],
                                truthy)]

units_of_time == <<"year", "month", "day", "hour", "minute">>

\* {unit: getattr(date, unit) for unit in units_of_time if hasattr(date, unit)}
DateValues(date) ==
    [unit \in (IF date.kind = "datetime" THEN Range(units_of_time)
               ELSE {"year", "month", "day"}) |-> date[unit]]

\* a faulty variant of MonthMismatch: the month is looked up among all the
\* candidate's values, not among its month values
MonthMismatch_any_value(date_values, candidate_values) ==
    /\ Len(candidate_values.months) > 0
    /\ date_values["month"] # 0
    /\ date_values["month"] \notin Range(candidate_values.digits)
            \cup Range(candidate_values.months) \cup Range(candidate_values.modifiers)

\* the first test of check_date_parts_are_in_date: month values were extracted
\* and the date's month is none of them
MonthMismatch(date_values, candidate_values) ==
    /\ Len(candidate_values.months) > 0
    /\ date_values["month"] # 0
    /\ date_values["month"] \notin Range(candidate_values.months)

\* a faulty variant of Unsupported: hour and minute count as year, month and day do
Unsupported_any_unit(diff_units, diff_digits) ==
    (\E unit \in diff_units : unit \in Range(units_of_time)) /\ diff_digits # {}

\* a faulty variant of Unsupported: all of year, month and day must be unmatched
Unsupported_all_units(diff_units, diff_digits) ==
    (\A unit \in Range(SubSeq(units_of_time, 1, 3)) : unit \in diff_units) /\ diff_digits # {}

\* the last test of check_date_parts_are_in_date: one of year, month, day is
\* unmatched and a token value is left over
Unsupported(diff_units, diff_digits) ==
    (\E unit \in diff_units : unit \in Range(SubSeq(units_of_time, 1, 3))) /\ diff_digits # {}

check_date_parts_are_in_date(date, date_props) ==
    LET date_values == DateValues(date)
        candidate_values == _collect_candidate_values(date_props)
        combined == Range(candidate_values.digits) \cup Range(candidate_values.months)
                        \cup Range(candidate_values.modifiers)
        difference == combined \ {date_values[unit] : unit \in DOMAIN date_values}
        short_year(value) == IF value > 1000 THEN value - 100 * (value \div 100) ELSE value
        by_short_year(unit) == unit = "year" /\ short_year(date_values[unit]) \in combined
        reassembled_date ==
            {unit \in DOMAIN date_values : by_short_year(unit) \/ date_values[unit] \in combined}
        removeable ==
            {IF by_short_year(unit) THEN short_year(date_values[unit]) ELSE date_values[unit] :
                unit \in reassembled_date}
        diff_digits == difference \ removeable
        diff_units == DOMAIN date_values \ reassembled_date
    IN  IF MonthMismatch(date_values, candidate_values) THEN FALSE
        ELSE IF Unsupported(diff_units, diff_digits)
        THEN FALSE
        ELSE TRUE

(***************************************************************************)
(* Windowed parser: the pieces of _parse_candidate around the collaborator *)
(* call.                                                                   *)
(***************************************************************************)
\* a faulty variant of CaughtByInner: the call is not guarded
CaughtByInner_nothing(kind) == FALSE

\* `except Exception` around the parse_date_string call: what the collaborator
\* raises, TypeError included, is caught there and the variant counts as no parse
CaughtByInner(kind) == kind \in {"raise", "type_error"}

\* `except TypeError` around the loops: it sees what the inner handler let through
CaughtByOuter(kind) == kind = "type_error"

\* a faulty variant of YieldOutcome: the generator does not wait for its consumer
YieldOutcome_running_on == "loop"

\* `yield outcome`: the generator is suspended and the consumer's loop body runs
YieldOutcome == "score"

\* a faulty variant of working_string: the slices drop one token more
working_string_drops_more(base_string, cutter, direction) ==
    LET date_string_tokens == Split(base_string)
        n == Len(date_string_tokens)
    IN  IF cutter > 0
        THEN IF direction = 1
             THEN JoinWith(SubSeq(date_string_tokens, cutter + 2, n), <<" ">>)
             ELSE JoinWith(SubSeq(date_string_tokens, 1, n - cutter - 1), <<" ">>)
        ELSE base_string

\* the variant offered to parse_date_string at (cutter, direction)
working_string(base_string, cutter, direction) ==
    LET date_string_tokens == Split(base_string)
        n == Len(date_string_tokens)
    IN  IF cutter > 0
        THEN IF direction = 1
             THEN JoinWith(SubSeq(date_string_tokens, cutter + 1, n), <<" ">>)
             ELSE JoinWith(SubSeq(date_string_tokens, 1, n - cutter), <<" ">>)
        ELSE base_string

\* a faulty variant of ParseVerdict: the mismatch rejection keeps the parsed date
ParseVerdict_keeps_date(candidate, date) ==
    IF date.kind = "none" THEN CandidateOutcome(candidate, FALSE, NoDate, "parse_failure")
    ELSE IF ~check_date_parts_are_in_date(date, candidate.props)
         THEN CandidateOutcome(candidate, FALSE, date, "date_parts_mismatch")
    ELSE IF date.kind = "datetime" /\ ~date.tz_ok
         THEN CandidateOutcome(candidate, FALSE, NoDate, "invalid_timezone")
    ELSE IF date.kind = "datetime" /\ date.hour = 0 /\ date.minute = 0
         THEN CandidateOutcome(candidate, TRUE, DateOnly(date.year, date.month, date.day),
                               NoReason)
    ELSE CandidateOutcome(candidate, TRUE, date, NoReason)

\* a faulty variant of ParseVerdict: isoformat() is not tried
ParseVerdict_no_isoformat(candidate, date) ==
    IF date.kind = "none" THEN CandidateOutcome(candidate, FALSE, NoDate, "parse_failure")
    ELSE IF ~check_date_parts_are_in_date(date, candidate.props)
         THEN CandidateOutcome(candidate, FALSE, NoDate, "date_parts_mismatch")
    ELSE IF date.kind = "datetime" /\ date.hour = 0 /\ date.minute = 0
         THEN CandidateOutcome(candidate, TRUE, DateOnly(date.year, date.month, date.day),
                               NoReason)
    ELSE CandidateOutcome(candidate, TRUE, date, NoReason)

\* a faulty variant of ParseVerdict: a midnight date-time is not cut to its date
ParseVerdict_keeps_time(candidate, date) ==
    IF date.kind = "none" THEN CandidateOutcome(candidate, FALSE, NoDate, "parse_failure")
    ELSE IF ~check_date_parts_are_in_date(date, candidate.props)
         THEN CandidateOutcome(candidate, FALSE, NoDate, "date_parts_mismatch")
    ELSE IF date.kind = "datetime" /\ ~date.tz_ok
         THEN CandidateOutcome(candidate, FALSE, NoDate, "invalid_timezone")
    ELSE CandidateOutcome(candidate, TRUE, date, NoReason)

\* a faulty variant of ParseVerdict: isoformat() is tried before the validator
ParseVerdict_isoformat_first(candidate, date) ==
    IF date.kind = "none" THEN CandidateOutcome(candidate, FALSE, NoDate, "parse_failure")
    ELSE IF date.kind = "datetime" /\ ~date.tz_ok
         THEN CandidateOutcome(candidate, FALSE, NoDate, "invalid_timezone")
    ELSE IF ~check_date_parts_are_in_date(date, candidate.props)
         THEN CandidateOutcome(candidate, FALSE, NoDate, "date_parts_mismatch")
    ELSE IF date.kind = "datetime" /\ date.hour = 0 /\ date.minute = 0
         THEN CandidateOutcome(candidate, TRUE, DateOnly(date.year, date.month, date.day),
                               NoReason)
    ELSE CandidateOutcome(candidate, TRUE, date, NoReason)

\* what _parse_candidate returns once the loops have ended with `date`
ParseVerdict(candidate, date) ==
    IF date.kind = "none" THEN CandidateOutcome(candidate, FALSE, NoDate, "parse_failure")
    ELSE IF ~check_date_parts_are_in_date(date, candidate.props)
         THEN CandidateOutcome(candidate, FALSE, NoDate, "date_parts_mismatch")
    ELSE IF date.kind = "datetime" /\ ~date.tz_ok
         THEN CandidateOutcome(candidate, FALSE, NoDate, "invalid_timezone")
    ELSE IF date.kind = "datetime" /\ date.hour = 0 /\ date.minute = 0
         THEN CandidateOutcome(candidate, TRUE, DateOnly(date.year, date.month, date.day),
                               NoReason)
    ELSE CandidateOutcome(candidate, TRUE, date, NoReason)

\* a faulty variant of Evaluate: the cleanup runs before the first rejection pass
Evaluate_cleanup_first(possible_date, index, has_previous, previous_candidate, previous_outcome) ==
    LET created == CandidateDate(possible_date.raw_text, possible_date.span,
                                 _copy_date_props(possible_date.props), index)
        normalized == _normalize_day_of(created, has_previous, previous_candidate,
                                        previous_outcome)
        cleaned == _normalize_tokens(normalized.candidate)
        rejection_reason == _reject_impossible_formats(cleaned)
        post_rejection == _reject_post_normalization(cleaned)
    IN  [entered |-> normalized.candidate, candidate |-> cleaned,
         previous_candidate |-> normalized.previous_candidate,
         reason |-> IF rejection_reason # NoReason THEN rejection_reason
                    ELSE post_rejection]

\* a faulty variant of Evaluate: the normalizer runs after the first rejection pass
Evaluate_normalizer_late(possible_date, index, has_previous, previous_candidate, previous_outcome) ==
    LET created == CandidateDate(possible_date.raw_text, possible_date.span,
                                 _copy_date_props(possible_date.props), index)
        rejection_reason == _reject_impossible_formats(created)
        normalized == _normalize_day_of(created, has_previous, previous_candidate,
                                        previous_outcome)
        cleaned == _normalize_tokens(normalized.candidate)
        post_rejection == _reject_post_normalization(cleaned)
    IN  IF rejection_reason # NoReason
        THEN [entered |-> normalized.candidate, candidate |-> normalized.candidate,
              previous_candidate |-> normalized.previous_candidate,
              reason |-> rejection_reason]
        ELSE [entered |-> normalized.candidate, candidate |-> cleaned,
              previous_candidate |-> normalized.previous_candidate,
              reason |-> post_rejection]

\* the stages of _iter_candidate_evaluations before the parser: the candidate as
\* the rejection engine first sees it (entered), as it leaves (candidate), the
\* previous candidate after the normalizer, and the rejection reason if any
Evaluate(possible_date, index, has_previous, previous_candidate, previous_outcome) ==
    LET created == CandidateDate(possible_date.raw_text, possible_date.span,
                                 _copy_date_props(possible_date.props), index)
        normalized == _normalize_day_of(created, has_previous, previous_candidate,
                                        previous_outcome)
        rejection_reason == _reject_impossible_formats(normalized.candidate)
        cleaned == _normalize_tokens(normalized.candidate)
        post_rejection == _reject_post_normalization(cleaned)
    IN  IF rejection_reason # NoReason
        THEN [entered |-> normalized.candidate, candidate |-> normalized.candidate,
              previous_candidate |-> normalized.previous_candidate,
              reason |-> rejection_reason]
        ELSE [entered |-> normalized.candidate, candidate |-> cleaned,
              previous_candidate |-> normalized.previous_candidate,
              reason |-> post_rejection]

\* a faulty variant of get_raw_dates: the `not outcome.accepted` test is missing
get_raw_dates_unfiltered(outcome_seq) ==
    [i \in DOMAIN outcome_seq |-> outcome_seq[i].date]

\* the generator get_raw_dates over an outcome sequence (return_source = False)
get_raw_dates(outcome_seq) ==
    LET kept(outcome) == outcome.accepted /\ outcome.date.kind # "none"
        yielding == SelectSeq(outcome_seq, kept)
    IN [i \in DOMAIN yielding |-> yielding[i].date]

\* a faulty variant of DateAnnotation: the text is the candidate's cleaned text
DateAnnotation_cleaned_text(source, outcome, candidate, date_score) ==
    [coords |-> <<candidate.span[1], candidate.span[2]>>,
     text |-> candidate.normalized_text,
     date |-> outcome.date,
     score |-> date_score]

\* DateAnnotation(coords, text, date, score) as get_date_annotations builds it
DateAnnotation(source, outcome, candidate, date_score) ==
    LET start == candidate.span[1]
        end == candidate.span[2]
    IN [coords |-> <<start, end>>,
        text |-> Slice(source, start, end),
        date |-> outcome.date,
        score |-> date_score]

\* a faulty variant of ClearsThreshold: a score equal to the threshold fails
ClearsThreshold_strict(date_score, limit) == date_score > limit

\* a faulty variant of ClearsThreshold: the comparison is turned round
ClearsThreshold_inverted(date_score, limit) == date_score <= limit

\* the test `date_score[0, 1] >= threshold`
ClearsThreshold(date_score, limit) == date_score >= limit

(***************************************************************************)
(* The collaborators: tokenizer results for the sample documents, the      *)
(* values the parser may return, the classifier's probabilities.           *)
(***************************************************************************)
Spaces(n) == [i \in 1..n |-> " "]

s_June == <<"J", "u", "n", "e">>
s_of == <<"o", "f">>
s_as == <<"a", "s">>
s_to == <<"t", "o">>
s_1st == <<"1", "s", "t">>
s_2017 == <<"2", "0", "1", "7">>
s_third == <<"t", "h", "i", "r", "d">>

\* "as of June 1, 2017" (the match of 'Dated as of June 1, 2017.')
m_as_of_june == [raw_text |-> <<"a", "s", " ", "o", "f", " ", "J", "u", "n", "e", " ", "1",
                               ",", " ", "2", "0", "1", "7">>,
                 props |-> Props(<<s_June>>, <<<<"1">>, s_2017>>, <<>>, <<>>,
                                 <<<<",">>, <<" ">>>>, <<s_as, s_of>>)]

\* "1st": an ordinal the tokenizer split from the month that follows it
m_1st == [raw_text |-> s_1st,
          props |-> Props(<<>>, <<>>, <<s_1st>>, <<>>, <<>>, <<>>)]

\* "of June 2017"
m_of_june == [raw_text |-> <<"o", "f", " ", "J", "u", "n", "e", " ", "2", "0", "1", "7">>,
              props |-> Props(<<s_June>>, <<s_2017>>, <<>>, <<>>, <<<<" ">>>>, <<s_of>>)]

\* "third": an ordinal in letters, split from the month that follows it
m_third == [raw_text |-> s_third,
            props |-> Props(<<>>, <<>>, <<s_third>>, <<>>, <<>>, <<>>)]

\* "of June": a month without a numeral
m_of_month == [raw_text |-> <<"o", "f", " ", "J", "u", "n", "e">>,
               props |-> Props(<<s_June>>, <<>>, <<>>, <<>>, <<<<" ">>>>, <<s_of>>)]

\* "of Jan Feb": two months without a numeral
m_of_jan_feb == [raw_text |-> <<"o", "f", " ", "J", "a", "n", " ", "F", "e", "b">>,
                 props |-> Props(<<<<"J", "a", "n">>, <<"F", "e", "b">>>>, <<>>, <<>>, <<>>,
                                 <<<<" ">>, <<" ">>>>, <<s_of>>)]

\* "6.25" (the match of 'Section on 6.25')
m_6_25 == [raw_text |-> <<"6", ".", "2", "5">>,
           props |-> Props(<<>>, <<<<"6">>, <<"2", "5">>>>, <<>>, <<>>, <<<<".">>>>, <<>>)]

\* "2016-03-01"
m_iso_01 == [raw_text |-> <<"2", "0", "1", "6", "-", "0", "3", "-", "0", "1">>,
             props |-> Props(<<>>, <<<<"2", "0", "1", "6">>, <<"0", "3">>, <<"0", "1">>>>,
                             <<>>, <<>>, <<<<"-">>, <<"-">>>>, <<>>)]

\* "to 2017-06-01"
m_to_iso_02 == [raw_text |-> <<"t", "o", " ", "2", "0", "1", "7", "-", "0", "6", "-", "0", "1">>,
                props |-> Props(<<>>, <<s_2017, <<"0", "6">>, <<"0", "1">>>>,
                                <<>>, <<>>, <<<<"-">>, <<"-">>>>, <<s_to>>)]

\* "01.02.2017"
m_num_date == [raw_text |-> <<"0", "1", ".", "0", "2", ".", "2", "0", "1", "7">>,
               props |-> Props(<<>>, <<<<"0", "1">>, <<"0", "2">>, s_2017>>, <<>>, <<>>,
                               <<<<".">>, <<".">>>>, <<>>)]

\* "1.02.2017"
m_1_02 == [raw_text |-> <<"1", ".", "0", "2", ".", "2", "0", "1", "7">>,
           props |-> Props(<<>>, <<<<"1">>, <<"0", "2">>, s_2017>>, <<>>, <<>>,
                           <<<<".">>, <<".">>>>, <<>>)]

\* "3 4.5"
m_3_4_5 == [raw_text |-> <<"3", " ", "4", ".", "5">>,
            props |-> Props(<<>>, <<<<"3">>, <<"4">>, <<"5">>>>, <<>>, <<>>,
                            <<<<" ">>, <<".">>>>, <<>>)]

\* "of": a lone extra token between an ordinal and the month
m_of == [raw_text |-> s_of,
         props |-> Props(<<>>, <<>>, <<>>, <<>>, <<>>, <<s_of>>)]

\* "Jan Feb"
m_jan_feb == [raw_text |-> <<"J", "a", "n", " ", "F", "e", "b">>,
              props |-> Props(<<<<"J", "a", "n">>, <<"F", "e", "b">>>>, <<>>, <<>>, <<>>,
                              <<<<" ">>>>, <<>>)]

\* "1 2017 June"
m_1_2017_june == [raw_text |-> <<"1", " ", "2", "0", "1", "7", " ", "J", "u", "n", "e">>,
                  props |-> Props(<<s_June>>, <<<<"1">>, s_2017>>, <<>>, <<>>,
                                  <<<<" ">>, <<" ">>>>, <<>>)]

\* "June 1," and "2017" 36 blanks apart: 47 characters
m_long == [raw_text |-> <<"J", "u", "n", "e", " ", "1", ",">> \o Spaces(36) \o s_2017,
           props |-> Props(<<s_June>>, <<<<"1">>, s_2017>>, <<>>, <<>>,
                           <<<<",">>, <<" ">>>>, <<>>)]

\* the sample documents, each given by the matches the tokenizer finds in it
Samples == {<<m_as_of_june>>,
            <<m_6_25>>,
            <<m_1st>>,
            <<m_jan_feb>>,
            <<m_long>>,
            <<m_1_2017_june>>,
            <<m_num_date>>,
            <<m_1_02>>,
            <<m_3_4_5>>,
            <<m_iso_01, m_to_iso_02>>,
            <<m_1st, m_of_june>>,
            <<m_6_25, m_as_of_june>>,
            <<m_1st, m_of, m_of_june>>,
            <<m_third, m_of, m_of_june>>,
            <<m_1st, m_of_month>>,
            <<m_1st, m_of_jan_feb>>,
            <<m_1st, m_of_june, m_6_25, m_iso_01>>}

\* the longest tokenizer result among the documents checked
MaxMatches == 3

Documents == {document \in Samples : Len(document) <= MaxMatches}

\* the text between two matches, and before the first
Filler == <<" ", ";", " ">>

RECURSIVE TextOf(_)
\* the source text of a document
TextOf(document) ==
    IF Len(document) = 0 THEN <<>>
    ELSE TextOf(SubSeq(document, 1, Len(document) - 1)) \o Filler
             \o document[Len(document)].raw_text

\* extract_date_strings(text): (raw_text, span, props) per match, left to right
Tokenize(document) ==
    [i \in DOMAIN document |->
        LET end == Len(TextOf(SubSeq(document, 1, i)))
        IN [raw_text |-> document[i].raw_text,
            span |-> <<end - Len(document[i].raw_text), end>>,
            props |-> document[i].props]]

\* the values parse_date_string may return
ParserDates == {DateTime(2017, 6, 1, 0, 0, TRUE),
                DateTime(2017, 6, 1, 10, 30, TRUE),
                DateTime(2017, 6, 1, 0, 0, FALSE),
                DateTime(2017, 7, 1, 0, 0, FALSE),
                DateTime(2016, 3, 1, 0, 0, TRUE)}

\* the ways parse_date_string may fail: return None, raise, raise TypeError
ParserFailures == {"none", "raise", "type_error"}

\* column 1 of predict_proba, in hundredths
Scores == {49, 50, 51}

\* the thresholds of the callers, in hundredths (0.50 is the default)
Thresholds == {50, 51}

\* EXTRA_TOKENS_PATTERN.split('|')
EXTRA_TOKENS == {s_of, s_as, s_to, <<"t">>}

\* a faulty variant of SetupReplacements: each call lengthens the replacement
\* that the call before left in the shared dictionary
SetupReplacements_appending(replacements) ==
    LET set == EXTRA_TOKENS \ {<<"t">>}
        old(token) == {entry.value : entry \in {e \in replacements : e.key = token}}
    IN {entry \in replacements : entry.key \notin set}
           \cup {[key |-> token,
                  value |-> IF old(token) = {} THEN <<" ">>
                            ELSE (CHOOSE v \in old(token) : TRUE) \o <<" ">>] : token \in set}

\* the loop of _candidate_outcomes over the extra tokens: REPLACEMENTS[token] = ' '
\* for every token but 't'; the dictionary is a set of (key, value) entries
SetupReplacements(replacements) ==
    LET set == EXTRA_TOKENS \ {<<"t">>}
    IN {entry \in replacements : entry.key \notin set}
           \cup {[key |-> token, value |-> <<" ">>] : token \in set}

(***************************************************************************)
(* State.                                                                  *)
(***************************************************************************)
VARIABLES
    text,            \* the caller's text
    tokenized,       \* what extract_date_strings answers for text
    threshold,       \* the caller's threshold for the current call
    run,             \* 1 for the first call of get_date_annotations, 2 for the second
    REPLACEMENTS,    \* DateFinder.REPLACEMENTS, shared by every finder: the entries
                     \*   this module writes
    pc,              \* where the call is: "idle", "loop", "parse", "score", "done";
                     \*   "stopped" when the caller gave up iterating, "raised" when
                     \*   an exception went up to the caller
    possible_dates,  \* the list _iter_candidate_evaluations iterates over
    cands,           \* the CandidateDate objects created so far, by index
    entered,         \* each candidate as the rejection engine first saw it
    outcomes,        \* the outcomes yielded so far
    calls,           \* per candidate, the strings offered to parse_date_string,
                     \*   each with the kind of answer it got
    returned,        \* per candidate, `date` when the loops of _parse_candidate ended
    cutter,          \* the loop variables of _parse_candidate
    direction,
    annotations,     \* the annotations yielded so far
    parsed,          \* the answers parse_date_string has given, by argument
    scored,          \* the probabilities the classifier has given, by span
    first,           \* what the first call produced, once it has ended
    u_stage,         \* single-function checks: which function has been applied
    u_candidate,     \*   its candidate argument
    u_previous,      \*   its previous_candidate and previous_outcome arguments
    u_date,          \*   its date argument
    u_result         \*   its result

callVars == <<text, tokenized, threshold, run, REPLACEMENTS, pc, possible_dates, cands,
              entered, outcomes, calls, returned, cutter, direction, annotations, parsed,
              scored, first>>

unitVars == <<u_stage, u_candidate, u_previous, u_date, u_result>>

vars == <<callVars, unitVars>>

\* the candidate _parse_candidate is working on
current == cands[Len(cands)]

\* the arguments of one parse_date_string call (the finder's replacements included)
ParseKey(candidate, string) ==
    [string |-> string, props |-> candidate.props, repl |-> REPLACEMENTS]

\* what parse_date_string may answer for these arguments: the answer it gave
\* before, if any (it is a function of its arguments); else any date or failure,
\* with one kind of failure per props
ParserAnswers(key) ==
    LET known == {m \in parsed : m.key = key}
        failed == {m.answer.kind : m \in {x \in parsed : x.key.props = key.props}}
                      \cap ParserFailures
    IN  IF known # {} THEN {m.answer : m \in known}
        ELSE {[kind |-> "date", date |-> d] : d \in ParserDates}
             \cup {[kind |-> k, date |-> NoDate] :
                     k \in (IF failed # {} THEN failed ELSE ParserFailures)}

\* what predict_proba may answer for the features of a span
ClassifierAnswers(span) ==
    LET known == {m \in scored : m.span = span}
    IN IF known # {} THEN {m.score : m \in known} ELSE Scores

NoFirst == [annotations |-> <<>>, outcomes |-> <<>>, cands |-> <<>>, threshold |-> 0]

NoCandidate == CandidateDate(<<>>, <<0, 0>>, Props(<<>>, <<>>, <<>>, <<>>, <<>>, <<>>), 0)

InitCall ==
    /\ run = 1
    /\ REPLACEMENTS = {}
    /\ pc = "idle"
    /\ possible_dates = <<>>
    /\ cands = <<>>
    /\ entered = <<>>
    /\ outcomes = <<>>
    /\ calls = <<>>
    /\ returned = <<>>
    /\ cutter = 0
    /\ direction = 0
    /\ annotations = <<>>
    /\ parsed = {}
    /\ scored = {}
    /\ first = NoFirst

\* previous_candidate = None, previous_outcome = None
NoPrevious == [has |-> FALSE, candidate |-> NoCandidate, accepted |-> FALSE]

InitUnit ==
    /\ u_stage = "off"
    /\ u_candidate = NoCandidate
    /\ u_previous = NoPrevious
    /\ u_date = NoDate
    /\ u_result = NoReason

\* no call of get_date_annotations is under way, nor will be
NoCall ==
    /\ text = <<>>
    /\ tokenized = <<>>
    /\ threshold = 50
    /\ InitCall

Init ==
    /\ \E document \in Documents :
          /\ text = TextOf(document)
          /\ tokenized = Tokenize(document)
    /\ threshold \in Thresholds
    /\ InitCall
    /\ InitUnit

(***************************************************************************)
(* Operations.                                                             *)
(***************************************************************************)
\* _candidate_outcomes up to the first candidate: the finder's REPLACEMENTS are
\* set for every extra token but 't', and the tokenizer is asked once
Begin ==
    /\ pc = "idle"
    /\ REPLACEMENTS' = SetupReplacements(REPLACEMENTS)
    /\ possible_dates' = tokenized
    /\ pc' = "loop"
    /\ UNCHANGED <<text, tokenized, threshold, run, cands, entered, outcomes, calls, returned,
                   cutter, direction, annotations, parsed, scored, first, unitVars>>

\* _iter_candidate_evaluations, one turn of its loop up to the yield or, when
\* neither rejection pass rejects, up to the first parse_date_string call
NextCandidate ==
    /\ pc = "loop"
    /\ Len(cands) < Len(possible_dates)
    /\ LET index == Len(cands)
           has_previous == index > 0
           previous_candidate == IF has_previous THEN cands[index] ELSE NoCandidate
           previous_outcome == IF has_previous THEN outcomes[index]
                               ELSE CandidateOutcome(NoCandidate, FALSE, NoDate, NoReason)
           e == Evaluate(possible_dates[index + 1], index, has_previous, previous_candidate,
                         previous_outcome)
           kept == IF has_previous
                   THEN [cands EXCEPT ![index] = e.previous_candidate]
                   ELSE cands
       IN  /\ cands' = Append(kept, e.candidate)
           /\ entered' = Append(entered, e.entered)
           /\ calls' = Append(calls, <<>>)
           /\ returned' = Append(returned, NoDate)
           /\ IF e.reason # NoReason
              THEN /\ outcomes' = Append(outcomes,
                                         CandidateOutcome(e.candidate, FALSE, NoDate, e.reason))
                   /\ pc' = YieldOutcome
              ELSE IF Len(Split(e.candidate.normalized_text)) = 0
              THEN /\ outcomes' = Append(outcomes, ParseVerdict(e.candidate, NoDate))
                   /\ pc' = YieldOutcome
              ELSE /\ outcomes' = outcomes
                   /\ pc' = "parse"
           /\ possible_dates' =
                LET own == WriteThrough(possible_dates, index + 1, e.candidate.props)
                IN  IF has_previous
                    THEN WriteThrough(own, index, e.previous_candidate.props)
                    ELSE own
    /\ cutter' = 0
    /\ direction' = 0
    /\ UNCHANGED <<text, tokenized, threshold, run, REPLACEMENTS, annotations,
                   parsed, scored, first, unitVars>>

\* one parse_date_string call of _parse_candidate and what follows it: the next
\* turn of the loops, or, when they end, validation and the yield
ParseCall ==
    /\ pc = "parse"
    /\ LET candidate == current
           string == working_string(candidate.normalized_text, cutter, direction)
           key == ParseKey(candidate, string)
           last == Len(Split(candidate.normalized_text)) - 1
       IN \E answer \in ParserAnswers(key) :
            LET date == IF answer.kind = "date" THEN answer.date ELSE NoDate
                raised == answer.kind \in {"raise", "type_error"}
            IN  /\ parsed' = parsed \cup {[key |-> key, answer |-> answer]}
                /\ calls' = [calls EXCEPT ![Len(calls)] =
                                Append(@, [string |-> string, answer |-> answer.kind])]
                /\ returned' = [returned EXCEPT ![Len(returned)] = date]
                /\ IF raised /\ ~CaughtByInner(answer.kind)
                   THEN /\ IF CaughtByOuter(answer.kind)
                           THEN /\ outcomes' = Append(outcomes,
                                       CandidateOutcome(candidate, FALSE, NoDate, "type_error"))
                                /\ pc' = YieldOutcome
                           ELSE /\ outcomes' = outcomes
                                /\ pc' = "raised"
                        /\ cutter' = 0
                        /\ direction' = 0
                   ELSE IF date.kind # "none" \/ (direction = 1 /\ cutter = last)
                   THEN /\ outcomes' = Append(outcomes, ParseVerdict(candidate, date))
                        /\ pc' = YieldOutcome
                        /\ cutter' = 0
                        /\ direction' = 0
                   ELSE /\ outcomes' = outcomes
                        /\ pc' = "parse"
                        /\ cutter' = IF direction = 1 THEN cutter + 1 ELSE cutter
                        /\ direction' = 1 - direction
    /\ UNCHANGED <<text, tokenized, threshold, run, REPLACEMENTS, possible_dates, cands,
                   entered, annotations, scored, first, unitVars>>

\* the body of the loop of get_date_annotations for the outcome just yielded
Score ==
    /\ pc = "score"
    /\ LET outcome == outcomes[Len(outcomes)]
           candidate == cands[outcome.candidate + 1]
       IN  IF ~outcome.accepted \/ outcome.date.kind = "none"
           THEN UNCHANGED <<annotations, scored>>
           ELSE \E date_score \in ClassifierAnswers(candidate.span) :
                   /\ scored' = scored \cup {[span |-> candidate.span, score |-> date_score]}
                   /\ annotations' =
                        IF ClearsThreshold(date_score, threshold)
                        THEN Append(annotations,
                                    DateAnnotation(text, outcome, candidate, date_score))
                        ELSE annotations
    /\ pc' = "loop"
    /\ UNCHANGED <<text, tokenized, threshold, run, REPLACEMENTS, possible_dates, cands,
                   entered, outcomes, calls, returned, cutter, direction, parsed, first,
                   unitVars>>

\* the outcome generator is exhausted: get_date_annotations ends
Exhaust ==
    /\ pc = "loop"
    /\ Len(cands) = Len(possible_dates)
    /\ pc' = "done"
    /\ UNCHANGED <<text, tokenized, threshold, run, REPLACEMENTS, possible_dates, cands,
                   entered, outcomes, calls, returned, cutter, direction, annotations, parsed,
                   scored, first, unitVars>>

\* the caller, holding the annotation just yielded to it, gives up iterating:
\* get_date_annotations stays suspended at its yield and is never resumed
Abandon ==
    /\ pc = "loop"
    /\ Len(annotations) > 0
    /\ Len(outcomes) > 0
    /\ annotations[Len(annotations)].coords = cands[Len(outcomes)].span
    /\ pc' = "stopped"
    /\ UNCHANGED <<text, tokenized, threshold, run, REPLACEMENTS, possible_dates, cands,
                   entered, outcomes, calls, returned, cutter, direction, annotations, parsed,
                   scored, first, unitVars>>

\* the caller calls get_date_annotations again on the same text
Again ==
    /\ pc = "done"
    /\ run = 1
    /\ first' = [annotations |-> annotations, outcomes |-> outcomes, cands |-> cands,
                 threshold |-> threshold]
    /\ run' = 2
    /\ threshold' \in Thresholds
    /\ pc' = "idle"
    /\ possible_dates' = <<>>
    /\ cands' = <<>>
    /\ entered' = <<>>
    /\ outcomes' = <<>>
    /\ calls' = <<>>
    /\ returned' = <<>>
    /\ annotations' = <<>>
    /\ UNCHANGED <<text, tokenized, REPLACEMENTS, cutter, direction, parsed, scored, unitVars>>

Next == Begin \/ NextCandidate \/ ParseCall \/ Score \/ Exhaust \/ Abandon \/ Again

Spec == Init /\ [][Next]_vars

(***************************************************************************)
(* The rejection engine and the validator on their own, over token lists   *)
(* and texts combined freely.                                              *)
(***************************************************************************)
s_May == <<"M", "a", "y">>
s_July == <<"J", "u", "l", "y">>
s_Monday == <<"M", "o", "n", "d", "a", "y">>

RuleMonths == {<<>>, <<s_June>>, <<s_May>>, <<<<"J", "a", "n">>, <<"F", "e", "b">>>>,
               <<s_May, s_June>>}

RuleDigits == {<<>>, <<<<"1">>>>, <<<<"6">>, <<"2", "5">>>>, <<<<"1">>, s_2017>>,
               <<<<"0", "0", "3">>>>, <<<<"2", "0", "1", "6">>, <<"0", "3">>, <<"0", "1">>>>}

RuleModifiers == {<<>>, <<s_1st>>}

RuleDays == {<<>>, <<s_Monday>>}

RuleDelimiters == {<<>>, <<<<".">>>>, <<<<"/">>>>, <<<<"-">>, <<"-">>>>, <<<<",">>, <<" ">>>>}

RuleExtraTokens == {<<>>, <<s_of>>, <<s_as, s_of>>}

RuleTexts == {m_as_of_june.raw_text, m_6_25.raw_text, m_num_date.raw_text, m_3_4_5.raw_text,
              m_jan_feb.raw_text, m_long.raw_text, s_May,
              <<"J", "u", "n", "e", "o", "f", " ", "1">>,
              <<"2", "5", ".", " ", "S", "e", "c", "t", "i", "o", "n">>}

InitRules ==
    /\ NoCall
    /\ u_stage = "input"
    /\ \E months \in RuleMonths, digits \in RuleDigits, modifiers \in RuleModifiers,
          days \in RuleDays, delimiters \in RuleDelimiters, extra \in RuleExtraTokens,
          raw_text \in RuleTexts :
            u_candidate = CandidateDate(raw_text, <<0, Len(raw_text)>>,
                              Props(months, digits, modifiers, days, delimiters, extra), 0)
    /\ u_previous = NoPrevious
    /\ u_date = NoDate
    /\ u_result = NoReason

\* _reject_impossible_formats(candidate)
RejectImpossible ==
    /\ u_stage = "input"
    /\ u_result' = _reject_impossible_formats(u_candidate)
    /\ u_stage' = "impossible"
    /\ UNCHANGED <<callVars, u_candidate, u_previous, u_date>>

NextRules == RejectImpossible

SpecRules == InitRules /\ [][NextRules]_vars

ValidatorDigits == {<<>>, <<<<"1">>>>, <<<<"1">>, s_2017>>, <<<<"7">>, s_2017>>,
                    <<<<"1", "7">>>>, <<<<"6">>, <<"2", "5">>>>}

ValidatorMonths == {<<>>, <<s_June>>, <<s_July>>, <<<<"J", "U", "N", "E">>>>,
                    <<s_June, s_July>>, <<<<"J", "u", "n", "i">>>>}

ValidatorModifiers == {<<>>, <<s_1st>>, <<<<"7", "t", "h">>>>}

ValidatorDates == {DateTime(2017, 6, 1, 0, 0, TRUE), DateTime(2017, 7, 1, 0, 0, TRUE),
                   DateTime(2017, 6, 25, 10, 30, TRUE), DateTime(2025, 1, 7, 0, 0, TRUE),
                   DateOnly(2017, 6, 1), DateOnly(2017, 7, 17)}

InitValidator ==
    /\ NoCall
    /\ u_stage = "input"
    /\ \E months \in ValidatorMonths, digits \in ValidatorDigits,
          modifiers \in ValidatorModifiers :
            u_candidate = CandidateDate(<<>>, <<0, 0>>,
                              Props(months, digits, modifiers, <<>>, <<>>, <<>>), 0)
    /\ u_previous = NoPrevious
    /\ u_date \in ValidatorDates
    /\ u_result = NoReason

\* check_date_parts_are_in_date(date, date_props, month_lookup=MONTH_BY_NAME)
Validate ==
    /\ u_stage = "input"
    /\ u_result' = check_date_parts_are_in_date(u_date, u_candidate.props)
    /\ u_stage' = "validated"
    /\ UNCHANGED <<callVars, u_candidate, u_previous, u_date>>

NextValidator == Validate

SpecValidator == InitValidator /\ [][NextValidator]_vars

s_2nd == <<"2", "n", "d">>

NormalizerExtraTokens == {<<>>, <<s_of>>, <<s_as, s_of>>, <<<<"O", "F">>>>, <<s_as>>}

NormalizerModifiers == {<<>>, <<s_2nd>>}

NormalizerTexts == {m_of_june.raw_text, <<"J", "u", "n", "e", " ", "2", "0", "1", "7">>}

NormalizerPreviousModifiers ==
    {<<>>, <<s_1st>>, <<<<"2", "2", "n", "d">>>>, <<<<"3", "r", "d">>>>, <<<<"4", "t", "h">>>>,
     <<s_third>>, <<s_1st, s_2nd>>}

InitNormalizer ==
    /\ NoCall
    /\ u_stage = "input"
    /\ \E extra \in NormalizerExtraTokens, modifiers \in NormalizerModifiers,
          raw_text \in NormalizerTexts :
            u_candidate = CandidateDate(raw_text, <<4, 4 + Len(raw_text)>>,
                              _copy_date_props(Props(<<s_June>>, <<s_2017>>, modifiers, <<>>,
                                                     <<<<" ">>>>, extra)), 1)
    /\ \E has \in BOOLEAN, accepted \in BOOLEAN, modifiers \in NormalizerPreviousModifiers :
            u_previous =
                IF has
                THEN [has |-> TRUE,
                      candidate |->
                          CandidateDate(Concat(modifiers), <<0, Len(Concat(modifiers))>>,
                              _copy_date_props(Props(<<>>, <<>>, modifiers, <<>>, <<>>, <<>>)),
                              0),
                      accepted |-> accepted]
                ELSE NoPrevious
    /\ u_date = NoDate
    /\ u_result = NoReason

\* _normalize_day_of(candidate, previous_candidate, previous_outcome)
Normalize ==
    /\ u_stage = "input"
    /\ u_result' = _normalize_day_of(u_candidate, u_previous.has, u_previous.candidate,
                       CandidateOutcome(u_previous.candidate, u_previous.accepted, NoDate,
                                        NoReason))
    /\ u_stage' = "normalized"
    /\ UNCHANGED <<callVars, u_candidate, u_previous, u_date>>

NextNormalizer == Normalize

SpecNormalizer == InitNormalizer /\ [][NextNormalizer]_vars

s_date == <<"d", "a", "t", "e">>
s_dated == <<"d", "a", "t", "e", "d">>

CleanupExtraTokens == {<<>>, <<s_of>>, <<s_as, s_of>>, <<s_to>>, <<s_of, s_to>>,
                       <<s_date, s_dated>>, <<<<"T", "O">>>>}

\* "June 1," and "2017" with blanks between them, n characters in all
Padded(n) == <<"J", "u", "n", "e", " ", "1", ",">> \o Spaces(n - 11) \o s_2017

CleanupTexts == {m_as_of_june.raw_text,
                 m_to_iso_02.raw_text,
                 <<"o", "f", " ", "J", "u", "n", "e", " ", "1", " ", "t", "o", " ">> \o s_2017,
                 <<"d", "a", "t", "e", "d", " ", "d", "a", "t", "e", " ", "J", "u", "n", "e",
                   " ", "1">>,
                 <<"T", "O", " ", "J", "u", "n", "e", " ", "1">>,
                 <<" ", "o", "f", " ">>,
                 <<"o", "f", " ">> \o Padded(DATE_MAX_LENGTH),
                 Padded(DATE_MAX_LENGTH),
                 Padded(DATE_MAX_LENGTH + 1)}

CleanupMonths == {<<>>, <<s_June>>}

CleanupDelimiters == {<<>>, <<<<",">>, <<" ">>>>, <<<<"-">>, <<"-">>>>, <<<<",", " ">>>>,
                      <<<<"\n">>, <<"\t">>>>, <<<<",">>, <<"/">>>>}

InitCleanup ==
    /\ NoCall
    /\ u_stage = "input"
    /\ \E months \in CleanupMonths, delimiters \in CleanupDelimiters,
          extra \in CleanupExtraTokens, raw_text \in CleanupTexts :
            u_candidate = CandidateDate(raw_text, <<0, Len(raw_text)>>,
                              _copy_date_props(Props(months, <<<<"1">>, s_2017>>, <<>>, <<>>,
                                                     delimiters, extra)), 0)
    /\ u_previous = NoPrevious
    /\ u_date = NoDate
    /\ u_result = NoReason

\* candidate = _normalize_tokens(candidate)
Cleanup ==
    /\ u_stage = "input"
    /\ u_result' = _normalize_tokens(u_candidate)
    /\ u_stage' = "cleaned"
    /\ UNCHANGED <<callVars, u_candidate, u_previous, u_date>>

\* _normalize_tokens applied to the candidate it returned
CleanupAgain ==
    /\ u_stage = "cleaned"
    /\ u_candidate' = u_result
    /\ u_result' = _normalize_tokens(u_result)
    /\ u_stage' = "cleaned_again"
    /\ UNCHANGED <<callVars, u_previous, u_date>>

\* _reject_post_normalization(candidate) on the cleaned candidate
RejectPost ==
    /\ u_stage = "cleaned"
    /\ u_candidate' = u_result
    /\ u_result' = _reject_post_normalization(u_result)
    /\ u_stage' = "post"
    /\ UNCHANGED <<callVars, u_previous, u_date>>

NextCleanup == Cleanup \/ CleanupAgain \/ RejectPost

SpecCleanup == InitCleanup /\ [][NextCleanup]_vars

\* the texts _parse_candidate is given on its own: none, blanks only, one, two,
\* three and four tokens
ParserTexts == {<<>>,
                Spaces(2),
                s_June,
                <<"J", "u", "n", "e", " ", " ">> \o s_2017,
                <<"J", "u", "n", "e", " ", "1", ",", " ">> \o s_2017,
                <<"1", " ", "J", "u", "n", "e", " ">> \o s_2017 \o <<" ", "t", "o">>}

InitParser ==
    /\ NoCall
    /\ u_stage = "input"
    /\ \E raw_text \in ParserTexts :
          u_candidate = CandidateDate(raw_text, <<0, Len(raw_text)>>,
                            _copy_date_props(Props(<<s_June>>, <<<<"1">>, s_2017>>, <<>>, <<>>,
                                                   <<<<",">>, <<" ">>>>, <<>>)), 0)
    /\ u_previous = NoPrevious
    /\ u_date = NoDate
    /\ u_result = NoReason

\* _parse_candidate(candidate) up to its first parse_date_string call, or to its
\* return when the text has no token
ParseCandidate ==
    /\ u_stage = "input"
    /\ pc = "idle"
    /\ u_stage' = "parsing"
    /\ cands' = <<u_candidate>>
    /\ entered' = <<u_candidate>>
    /\ calls' = <<<<>>>>
    /\ returned' = <<NoDate>>
    /\ cutter' = 0
    /\ direction' = 0
    /\ IF Len(Split(u_candidate.normalized_text)) = 0
       THEN /\ outcomes' = <<ParseVerdict(u_candidate, NoDate)>>
            /\ pc' = YieldOutcome
       ELSE /\ outcomes' = <<>>
            /\ pc' = "parse"
    /\ UNCHANGED <<text, tokenized, threshold, run, REPLACEMENTS, possible_dates, annotations,
                   parsed, scored, first, u_candidate, u_previous, u_date, u_result>>

NextParser == ParseCandidate \/ ParseCall

SpecParser == InitParser /\ [][NextParser]_vars

(***************************************************************************)
(* Properties.                                                             *)
(***************************************************************************)
\* the closed enumeration of rejection reasons
RejectionReasons ==
    {"multiple_month_tokens", "month_followed_by_word", "modifier_without_digits",
     "day_without_digits", "insufficient_components", "ambiguous_double_numbers",
     "decimal_without_month", "number_dot_word", "fraction_like_number",
     "invalid_digit_length", "standalone_may", "punctuated_may", "exceeds_max_length",
     "digits_without_month", "parse_failure", "type_error", "date_parts_mismatch",
     "invalid_timezone"}

\* C1: every outcome the pipeline yields, whatever the parser answered, is either
\* accepted with a date and no reason, or rejected with no date and a reason of
\* the closed enumeration.
C1_OutcomeShape ==
    \A i \in DOMAIN outcomes :
        LET outcome == outcomes[i]
        IN  /\ outcome.accepted =>
                  outcome.date.kind # "none" /\ outcome.reason = NoReason
            /\ ~outcome.accepted =>
                  outcome.date.kind = "none" /\ outcome.reason \in RejectionReasons

\* C1 witness: the parser returned a date and validation rejected it, in a text
\* where another candidate was accepted.
C1_Witness ==
    \E i, j \in DOMAIN outcomes :
        /\ outcomes[i].accepted
        /\ ~outcomes[j].accepted /\ outcomes[j].reason = "date_parts_mismatch"
        /\ returned[j].kind = "datetime"

\* the indices of the accepted outcomes, and the k-th of them in ascending order
AcceptedIndices == {i \in DOMAIN outcomes : outcomes[i].accepted}

KthAccepted(k) ==
    CHOOSE i \in AcceptedIndices : Cardinality({j \in AcceptedIndices : j < i}) = k - 1

\* the candidate an annotation came from
SourceOf(annotation) == {i \in DOMAIN cands : cands[i].span = annotation.coords}

\* C2: the i-th outcome judges the i-th tokenizer match (same index, raw text and
\* span), an exhausted call has yielded exactly one outcome per match, and the
\* dates of raw_dates and the annotations of dates come in candidate order.
C2_OneOutcomePerMatchInOrder ==
    /\ Len(outcomes) <= Len(possible_dates)
    /\ Len(cands) <= Len(outcomes) + 1
    /\ \A i \in DOMAIN outcomes :
          /\ outcomes[i].candidate = i - 1
          /\ cands[i].index = i - 1
          /\ cands[i].raw_text = tokenized[i].raw_text
          /\ cands[i].span = tokenized[i].span
    /\ pc = "done" => Len(outcomes) = Len(tokenized)
    /\ LET raw_dates == get_raw_dates(outcomes)
       IN  /\ Len(raw_dates) = Cardinality(AcceptedIndices)
           /\ \A k \in DOMAIN raw_dates : raw_dates[k] = outcomes[KthAccepted(k)].date
    /\ \A a, b \in DOMAIN annotations :
          a < b => \E i \in SourceOf(annotations[a]) : \E j \in SourceOf(annotations[b]) :
                      i < j

\* C2 witness: the range document has been read to its end, and both of its
\* dates were accepted and annotated, the earlier text first.
C2_Witness ==
    /\ pc = "done"
    /\ Len(tokenized) = 2 /\ tokenized[1].raw_text = m_iso_01.raw_text
    /\ get_raw_dates(outcomes) = <<DateOnly(2016, 3, 1), DateOnly(2017, 6, 1)>>
    /\ Len(annotations) = 2
    /\ annotations[1].date = DateOnly(2016, 3, 1)

\* C3: a candidate with more than one month token is rejected as
\* multiple_month_tokens, whatever its other token lists and its text are.
C3_MultipleMonthsFirst ==
    (u_stage = "impossible" /\ Len(u_candidate.props.months) > 1)
        => u_result = "multiple_month_tokens"

\* C3 witness: two month tokens together with a modifier and no numeral, which
\* a later rule would reject as well.
C3_Witness ==
    /\ u_stage = "impossible"
    /\ Len(u_candidate.props.months) = 2
    /\ Len(u_candidate.props.digits_modifier) = 1 /\ Len(u_candidate.props.digits) = 0
    /\ u_result = "multiple_month_tokens"

\* the reasons of the two rejection passes
PassReasons == RejectionReasons \ {"parse_failure", "type_error", "date_parts_mismatch",
                                   "invalid_timezone"}

\* the annotations made for candidate i
AnnotationsOf(i) == {a \in DOMAIN annotations : annotations[a].coords = cands[i].span}

\* the case of C4: a '.' delimiter, no month, two numerals or more, no modifier, no
\* weekday, and a text that starts neither with two short numbers nor as dd.dd.dd
DecimalCase(candidate) ==
    /\ Count(candidate.props.delimiters, <<".">>) >= 1
    /\ Len(candidate.props.months) = 0
    /\ Len(candidate.props.digits) >= 2
    /\ Len(candidate.props.digits_modifier) = 0
    /\ Len(candidate.props.days) = 0
    /\ ~\E i \in 1..2 : \E j \in (i + 1)..(Len(candidate.normalized_text) - 1) :
            /\ \A k \in 1..i : IsDigitChar(candidate.normalized_text[k])
            /\ \A k \in (i + 1)..j : IsSpaceChar(candidate.normalized_text[k])
            /\ IsDigitChar(candidate.normalized_text[j + 1])
    /\ ~(/\ Len(candidate.normalized_text) >= 8
         /\ \A k \in {1, 2, 4, 5, 7, 8} : IsDigitChar(candidate.normalized_text[k])
         /\ candidate.normalized_text[3] = "." /\ candidate.normalized_text[6] = ".")

\* C4: a candidate in the decimal case is rejected as decimal_without_month, the
\* parser is never called for it, and it yields no date and no annotation.
C4_DecimalWithoutMonth ==
    \A i \in DOMAIN entered :
        DecimalCase(entered[i]) =>
            /\ i \in DOMAIN outcomes
            /\ ~outcomes[i].accepted
            /\ outcomes[i].reason = "decimal_without_month"
            /\ outcomes[i].date = NoDate
            /\ calls[i] = <<>>
            /\ AnnotationsOf(i) = {}

\* C4 witness: '6.25' has been rejected, and the call has gone on to its end.
C4_Witness ==
    /\ pc = "done"
    /\ \E i \in DOMAIN entered :
          /\ entered[i].normalized_text = <<"6", ".", "2", "5">>
          /\ DecimalCase(entered[i])
          /\ outcomes[i].reason = "decimal_without_month"

\* the case of C5 for the i-th candidate: one month token other than 'May', a day
\* and a four-digit year as its two numerals, comma and space delimiters only,
\* and no rejected predecessor holding a modifier
PlainDateCase(i) ==
    LET props == tokenized[i].props
    IN  /\ Len(props.months) = 1
        /\ Lower(props.months[1]) # <<"m", "a", "y">>
        /\ Len(props.digits) = 2
        /\ \A k \in 1..2 :
              /\ IsDigitStr(props.digits[k])
              /\ Len(props.digits[k]) # 3
              /\ ~StartsWith(props.digits[k], <<"0", "0">>)
        /\ \E k \in 1..2 : Len(props.digits[k]) = 4 /\ Len(props.digits[3 - k]) <= 2
        /\ \A k \in DOMAIN props.delimiters : props.delimiters[k] \in {<<",">>, <<" ">>}
        /\ i > 1 => (outcomes[i - 1].accepted \/ Len(entered[i - 1].props.digits_modifier) = 0)

\* the parser's last answer for the i-th candidate is a midnight date-time of the
\* candidate's month, day and year
MidnightOfTokens(i) ==
    LET props == tokenized[i].props
        date == returned[i]
    IN  /\ date.kind = "datetime"
        /\ date.hour = 0 /\ date.minute = 0
        /\ date.month = MONTH_BY_NAME(Lower(props.months[1]))
        /\ \E k \in 1..2 : /\ Len(props.digits[k]) = 4
                           /\ date.year = ToInt(props.digits[k])
                           /\ date.day = ToInt(props.digits[3 - k])

\* what the i-th candidate's text must also be for the two passes to let it
\* through: it does not hold the month token followed by the last extra token,
\* does not start with two short numbers apart by blanks, holds no number
\* followed by a dot and a letter, and is 40 characters at most once cleaned
PlainDateText(i) ==
    LET candidate == entered[i]
        extra_tokens == candidate.props.extra_tokens
    IN  /\ Len(extra_tokens) > 0 =>
               ~Contains(candidate.normalized_text,
                         candidate.props.months[1] \o extra_tokens[Len(extra_tokens)])
        /\ ~MatchDoubleNumbers(candidate.normalized_text)
        /\ ~SearchNumberDotWord(candidate.normalized_text)
        /\ Len(_normalize_tokens(candidate).normalized_text) <= DATE_MAX_LENGTH

\* C5 as stated: a candidate in the plain-date case passes both rejection passes,
\* and if the parser's answer is the midnight of its tokens the outcome is
\* accepted with that calendar date.
C5_AsStated ==
    \A i \in DOMAIN outcomes :
        PlainDateCase(i) =>
            /\ outcomes[i].reason \notin PassReasons
            /\ MidnightOfTokens(i) =>
                  /\ outcomes[i].accepted
                  /\ outcomes[i].date = DateOnly(returned[i].year, returned[i].month,
                                                 returned[i].day)

\* C5, amended: a candidate in the plain-date case whose text is also as
\* PlainDateText says passes both rejection passes, and if the parser's answer is
\* the midnight of its tokens, with a time zone that isoformat() accepts, the
\* outcome is accepted with that calendar date.
C5_PlainDateAccepted ==
    \A i \in DOMAIN outcomes :
        (PlainDateCase(i) /\ PlainDateText(i)) =>
            /\ outcomes[i].reason \notin PassReasons
            /\ (MidnightOfTokens(i) /\ returned[i].tz_ok) =>
                  /\ outcomes[i].accepted
                  /\ outcomes[i].date = DateOnly(returned[i].year, returned[i].month,
                                                 returned[i].day)

\* C5 witness: 'as of June 1, 2017' was parsed as midnight of 2017-06-01 and
\* accepted with the date 2017-06-01.
C5_Witness ==
    \E i \in DOMAIN outcomes :
        /\ tokenized[i].raw_text = m_as_of_june.raw_text
        /\ PlainDateCase(i) /\ PlainDateText(i)
        /\ MidnightOfTokens(i) /\ returned[i].tz_ok
        /\ outcomes[i].accepted
        /\ outcomes[i].date = DateOnly(2017, 6, 1)

\* the month numbers the month tokens map to through the lookup, whatever their case
MonthNumbers(months) ==
    {MONTH_BY_NAME(Lower(months[k])) : k \in DOMAIN months} \ {0}

\* C6: when a month token maps to a month number and the date's month is none of
\* the mapped numbers, the validator returns false whatever the numerals and the
\* modifiers are; for digits ['1', '2017'] and the date 2017-06-01 it returns
\* true with months ['June'] and false with months ['July'].
C6_MonthMismatchDecisive ==
    /\ (/\ u_stage = "validated"
        /\ MonthNumbers(u_candidate.props.months) # {}
        /\ u_date.month \notin MonthNumbers(u_candidate.props.months))
           => u_result = FALSE
    /\ check_date_parts_are_in_date(DateTime(2017, 6, 1, 0, 0, TRUE),
           Props(<<s_June>>, <<<<"1">>, s_2017>>, <<>>, <<>>, <<>>, <<>>)) = TRUE
    /\ check_date_parts_are_in_date(DateTime(2017, 6, 1, 0, 0, TRUE),
           Props(<<s_July>>, <<<<"1">>, s_2017>>, <<>>, <<>>, <<>>, <<>>)) = FALSE

\* C6 witness: the validator has rejected months ['July'], digits ['1'],
\* modifiers ['7th'] against 2025-01-07, whose month and day are both among the
\* candidate's numbers.
C6_Witness ==
    /\ u_stage = "validated"
    /\ u_candidate.props.months = <<s_July>>
    /\ u_candidate.props.digits = <<<<"1">>>>
    /\ u_candidate.props.digits_modifier = <<<<"7", "t", "h">>>>
    /\ u_date = DateTime(2025, 1, 7, 0, 0, TRUE)
    /\ u_result = FALSE

\* the outcomes the loop of get_date_annotations has dealt with
Consumed == {i \in DOMAIN outcomes : ~(pc = "score" /\ i = Len(outcomes))}

\* C7: for an accepted outcome the annotation loop has dealt with, there is an
\* annotation exactly when the classifier's probability for the candidate's span
\* is at least the threshold, equality included; the annotation carries that
\* probability and the outcome's date; a rejected outcome has no annotation.
C7_AnnotationIffScoreClears ==
    \A i \in DOMAIN outcomes :
        /\ ~outcomes[i].accepted => AnnotationsOf(i) = {}
        /\ (outcomes[i].accepted /\ i \in Consumed) =>
              \E m \in scored :
                  /\ m.span = cands[i].span
                  /\ AnnotationsOf(i) # {} <=> m.score >= threshold
                  /\ Cardinality(AnnotationsOf(i)) <= 1
                  /\ \A a \in AnnotationsOf(i) :
                        /\ annotations[a].score = m.score
                        /\ annotations[a].date = outcomes[i].date

\* C7 witness: one accepted outcome was annotated with a score equal to the
\* threshold, another accepted outcome scored below it and was not annotated.
C7_Witness ==
    /\ \E a \in DOMAIN annotations : annotations[a].score = threshold
    /\ \E i \in Consumed :
          /\ outcomes[i].accepted
          /\ AnnotationsOf(i) = {}
          /\ \E m \in scored : m.span = cands[i].span /\ m.score < threshold

RECURSIVE IsSubsequence(_, _)
\* sub can be had from seq by deleting elements
IsSubsequence(sub, seq) ==
    IF Len(sub) = 0 THEN TRUE
    ELSE IF Len(seq) = 0 THEN FALSE
    ELSE IF Head(sub) = Head(seq) THEN IsSubsequence(Tail(sub), Tail(seq))
    ELSE IsSubsequence(sub, Tail(seq))

\* C8: of two calls on the same text with the same collaborators, the call with
\* the higher threshold yields a subsequence of the annotations of the other.
C8_ThresholdMonotone ==
    (pc = "done" /\ run = 2) =>
        /\ first.threshold <= threshold => IsSubsequence(annotations, first.annotations)
        /\ threshold <= first.threshold => IsSubsequence(first.annotations, annotations)

\* C8 witness: the second call had the higher threshold and lost one of the
\* annotations of the first, keeping another.
C8_Witness ==
    /\ pc = "done" /\ run = 2
    /\ first.threshold < threshold
    /\ Len(annotations) >= 1
    /\ Len(annotations) < Len(first.annotations)

\* C9: every annotation has the span of an accepted candidate as its coords, the
\* coords are a half-open range with 0 <= start < end <= len(text), and its text
\* is text[start:end].
C9_SpanInvariant ==
    \A a \in DOMAIN annotations :
        LET start == annotations[a].coords[1]
            end == annotations[a].coords[2]
        IN  /\ \E i \in DOMAIN outcomes :
                  outcomes[i].accepted /\ cands[i].span = annotations[a].coords
            /\ 0 <= start /\ start < end /\ end <= Len(text)
            /\ annotations[a].text = SubSeq(text, start + 1, end)

\* C9 witness: an annotation of a candidate that is not the first of its text
\* and whose cleaned text differs from the text of its span.
C9_Witness ==
    \E a \in DOMAIN annotations : \E i \in DOMAIN cands :
        /\ i > 1
        /\ cands[i].span = annotations[a].coords
        /\ cands[i].normalized_text # annotations[a].text
        /\ annotations[a].text = cands[i].raw_text

\* C10: a second call on the same text yields the same candidates and outcomes as
\* the first and, the threshold being the same, the same annotations in the same
\* order.
C10_SecondCallIdentical ==
    (pc = "done" /\ run = 2) =>
        /\ cands = first.cands
        /\ outcomes = first.outcomes
        /\ threshold = first.threshold => annotations = first.annotations

\* C10 witness: the second call has ended with the annotation of the first, on a
\* text whose second candidate took over the modifier of the rejected first and
\* had its extra token cleaned away.
C10_Witness ==
    /\ pc = "done" /\ run = 2
    /\ threshold = first.threshold
    /\ Len(annotations) >= 1
    /\ Len(entered) >= 2
    /\ entered[2].props.digits_modifier = <<s_1st>>
    /\ cands[2].normalized_text # entered[2].normalized_text
    /\ cands[1].props.digits_modifier = <<>>

\* C11: evaluation keeps step with the consumer. Whenever k outcomes have been
\* yielded, exactly the first k candidates have been normalized, judged and
\* parsed, or the first k + 1 while the generator is at work on the next one;
\* the generator resumes only after the consumer has dealt with every outcome
\* yielded before; the candidate just yielded still has the modifiers it was
\* judged with; once the caller has given up, the rest is never evaluated.
C11_LazyEvaluation ==
    /\ Len(entered) = Len(cands) /\ Len(calls) = Len(cands) /\ Len(returned) = Len(cands)
    /\ Len(cands) <= Len(possible_dates)
    /\ IF pc = "parse" THEN Len(cands) = Len(outcomes) + 1 ELSE Len(cands) = Len(outcomes)
    /\ pc \in {"loop", "parse", "done"} =>
          \A i \in DOMAIN outcomes :
              outcomes[i].accepted => \E m \in scored : m.span = cands[i].span
    /\ pc \in {"score", "stopped"} =>
          cands[Len(outcomes)].props.digits_modifier
              = entered[Len(outcomes)].props.digits_modifier

\* C11 witness: the caller gave up after the first annotation of a text of two
\* candidates; the second one was never evaluated nor offered to the parser.
C11_Witness ==
    /\ pc = "stopped"
    /\ Len(possible_dates) = 2
    /\ Len(outcomes) = 1 /\ Len(entered) = 1 /\ Len(calls) = 1
    /\ outcomes[1].accepted

\* the kinds of answer the parser gave for the i-th candidate
AnswersOf(i) == {calls[i][c].answer : c \in DOMAIN calls[i]}

\* C12: no exception of the parser goes up to the caller; a candidate for which
\* the parser raised on every variant is rejected, and a call that has run to
\* its end has an outcome for every candidate.
C12_NoExceptionEscapes ==
    /\ pc # "raised"
    /\ \A i \in DOMAIN outcomes :
          (AnswersOf(i) # {} /\ AnswersOf(i) \subseteq {"raise", "type_error"}) =>
              /\ ~outcomes[i].accepted
              /\ outcomes[i].date = NoDate
              /\ outcomes[i].reason \in {"parse_failure", "type_error"}
    /\ pc = "done" => Len(outcomes) = Len(tokenized)

\* C12 witness: the parser raised on every variant of the first candidate, which
\* was rejected, and the second candidate was accepted after it.
C12_Witness ==
    /\ pc = "done"
    /\ Len(outcomes) = 2
    /\ "raise" \in AnswersOf(1) /\ AnswersOf(1) \subseteq {"raise", "type_error"}
    /\ Len(calls[1]) >= 2
    /\ ~outcomes[1].accepted
    /\ outcomes[2].accepted

\* C13: when the parser raised TypeError during the attempts for a candidate, the
\* outcome is rejected with reason type_error; when it raised other exceptions
\* on every variant, the reason is parse_failure.
C13_TypeErrorReason ==
    \A i \in DOMAIN outcomes :
        /\ "type_error" \in AnswersOf(i) =>
              ~outcomes[i].accepted /\ outcomes[i].reason = "type_error"
        /\ AnswersOf(i) = {"raise"} =>
              ~outcomes[i].accepted /\ outcomes[i].reason = "parse_failure"

\* C13 witness: the parser raised TypeError on every variant of 'as of June 1,
\* 2017' and the outcome carries the reason parse_failure.
C13_Witness ==
    \E i \in DOMAIN outcomes :
        /\ tokenized[i].raw_text = m_as_of_june.raw_text
        /\ AnswersOf(i) = {"type_error"}
        /\ outcomes[i].reason = "parse_failure"

\* the props the i-th candidate was parsed and validated with: as it left the
\* cleanup, before a later candidate could take its modifier
ParsedProps(i) == _normalize_tokens(entered[i]).props

\* C14: when the parser's date passes validation and its isoformat() raises
\* ValueError, the outcome is rejected with reason invalid_timezone, and no
\* exception goes up to the caller.
C14_InvalidTimezone ==
    /\ pc # "raised"
    /\ \A i \in DOMAIN outcomes :
          (/\ returned[i].kind = "datetime"
           /\ check_date_parts_are_in_date(returned[i], ParsedProps(i))
           /\ ~returned[i].tz_ok)
              => /\ ~outcomes[i].accepted
                 /\ outcomes[i].date = NoDate
                 /\ outcomes[i].reason = "invalid_timezone"

\* C14 witness: 2017-06-01 with such a time zone was returned for 'as of June 1,
\* 2017', passed validation and was rejected, and the call went on to its end.
C14_Witness ==
    /\ pc = "done"
    /\ \E i \in DOMAIN outcomes :
          /\ tokenized[i].raw_text = m_as_of_june.raw_text
          /\ returned[i] = DateTime(2017, 6, 1, 0, 0, FALSE)
          /\ check_date_parts_are_in_date(returned[i], ParsedProps(i))
          /\ outcomes[i].reason = "invalid_timezone"

\* C15: within one call, no step changes the list the tokenizer returned nor an
\* outcome already yielded; evaluating candidate k leaves the candidates before
\* k - 1 as they are, and changes of candidate k - 1 nothing but
\* props.digits_modifier, and that only when k - 1 was rejected.
C15_MutationFootprint ==
    [][pc # "idle" /\ pc' # "idle" =>
          /\ possible_dates' = possible_dates
          /\ possible_dates = tokenized
          /\ \A i \in DOMAIN outcomes :
                i \in DOMAIN outcomes' /\ outcomes'[i] = outcomes[i]
          /\ \A i \in DOMAIN cands :
                /\ i \in DOMAIN cands'
                /\ i # Len(cands') - 1 => cands'[i] = cands[i]
                /\ i = Len(cands') - 1 =>
                      /\ [cands'[i] EXCEPT !.props.digits_modifier =
                                               cands[i].props.digits_modifier] = cands[i]
                      /\ cands'[i] # cands[i] => ~outcomes[i].accepted]_vars

\* C15 witness: the second of three candidates lost its modifier to the third;
\* the first candidate, the tokenizer's list and the outcomes are as they were.
C15_Witness ==
    /\ Len(cands) = 3
    /\ entered[2].props.digits_modifier = <<s_1st>>
    /\ cands[2].props.digits_modifier = <<>>
    /\ entered[3].props.digits_modifier = <<s_1st>>
    /\ ~outcomes[2].accepted
    /\ possible_dates = tokenized

\* the reasons of the first rejection pass
ImpossibleReasons == PassReasons \ {"exceeds_max_length", "digits_without_month"}

\* C16: per candidate, the first rejection pass judges the candidate as the
\* context normalizer left it, and a candidate it rejects is not cleaned; the
\* cleanup comes next and the second pass judges the cleaned candidate, whose
\* extra tokens are gone; the parser is called, and a parsed date validated,
\* only for a candidate that neither pass rejected.
C16_StageOrder ==
    \A i \in DOMAIN outcomes :
        LET impossible == _reject_impossible_formats(entered[i])
            cleaned == _normalize_tokens(entered[i])
            post == _reject_post_normalization(cleaned)
        IN  /\ impossible # NoReason =>
                  /\ outcomes[i].reason = impossible
                  /\ cands[i].normalized_text = entered[i].normalized_text
                  /\ cands[i].props.extra_tokens = entered[i].props.extra_tokens
            /\ impossible = NoReason =>
                  /\ cands[i].normalized_text = cleaned.normalized_text
                  /\ cands[i].props.extra_tokens = <<>>
                  /\ post # NoReason => outcomes[i].reason = post
            /\ outcomes[i].reason \in PassReasons =>
                  calls[i] = <<>> /\ returned[i] = NoDate
            /\ outcomes[i].reason \in PassReasons \ ImpossibleReasons =>
                  cands[i].props.extra_tokens = <<>>
            /\ (calls[i] # <<>> \/ outcomes[i].accepted
                    \/ outcomes[i].reason \in {"date_parts_mismatch", "invalid_timezone"}) =>
                  impossible = NoReason /\ post = NoReason /\ calls[i] # <<>>

\* C16 witness: of three candidates, the first pass rejected one that still has
\* its extra token, and one that both passes let through was cleaned, parsed
\* and accepted.
C16_Witness ==
    /\ Len(outcomes) = 3
    /\ outcomes[2].reason \in ImpossibleReasons
    /\ cands[2].props.extra_tokens = <<s_of>>
    /\ entered[3].props.extra_tokens = <<s_of>>
    /\ cands[3].props.extra_tokens = <<>>
    /\ calls[3] # <<>>
    /\ outcomes[3].accepted

\* the reasons of the first rejection pass, in the order of its tests
RuleOrder ==
    <<"multiple_month_tokens", "month_followed_by_word", "modifier_without_digits",
      "day_without_digits", "insufficient_components", "ambiguous_double_numbers",
      "decimal_without_month", "number_dot_word", "fraction_like_number",
      "invalid_digit_length", "standalone_may", "punctuated_may">>

\* the positions of the tests that hold, in a list of tests
Holding(rules) == {k \in DOMAIN rules : rules[k].holds}

\* C17: _reject_impossible_formats returns the reason of the earliest of its
\* twelve tests, taken in the stated order, that holds for the candidate, and
\* no reason exactly when none holds.
C17_FirstMatchWins ==
    u_stage = "impossible" =>
        LET rules == ImpossibleRules(u_candidate)
            holding == Holding(rules)
        IN  /\ [k \in DOMAIN rules |-> rules[k].reason] = RuleOrder
            /\ u_result = NoReason <=> holding = {}
            /\ holding # {} =>
                  \E k \in holding : u_result = RuleOrder[k] /\ \A j \in holding : k <= j

\* C17 witness: a candidate that starts with two short numbers and has a '.'
\* delimiter without a month; the earlier of the two reasons is returned.
C17_Witness ==
    /\ u_stage = "impossible"
    /\ u_result = "ambiguous_double_numbers"
    /\ LET holding == Holding(ImpossibleRules(u_candidate))
       IN  {6, 7} \subseteq holding /\ \A k \in holding : k >= 6

\* a token without its ordinal suffix 'st', 'nd', 'rd' or 'th', if it ends in one
WithoutOrdinalSuffix(token) ==
    IF /\ Len(token) >= 2
       /\ SubSeq(token, Len(token) - 1, Len(token))
              \in {<<"s", "t">>, <<"n", "d">>, <<"r", "d">>, <<"t", "h">>}
    THEN SubSeq(token, 1, Len(token) - 2)
    ELSE token

\* the case of C18: the candidate has an 'of' among its extra tokens and its
\* predecessor exists, was rejected and holds exactly one modifier
TransferCase ==
    /\ \E k \in DOMAIN u_candidate.props.extra_tokens :
          Lower(u_candidate.props.extra_tokens[k]) = <<"o", "f">>
    /\ u_previous.has
    /\ ~u_previous.accepted
    /\ Len(u_previous.candidate.props.digits_modifier) = 1

\* C18: in the transfer case the candidate's modifiers become the predecessor's
\* modifier m followed by its own, the predecessor's modifiers become empty, and
\* the candidate's text becomes m without its ordinal suffix followed by the old
\* text.
C18_ModifierTransfer ==
    (u_stage = "normalized" /\ TransferCase) =>
        LET m == u_previous.candidate.props.digits_modifier[1]
        IN  /\ u_result.candidate.props.digits_modifier
                  = <<m>> \o u_candidate.props.digits_modifier
            /\ u_result.previous_candidate.props.digits_modifier = <<>>
            /\ u_result.candidate.normalized_text
                  = WithoutOrdinalSuffix(m) \o u_candidate.normalized_text

\* C18 witness: the modifier 'third' of a rejected predecessor was moved to a
\* candidate 'of June 2017', whose text now starts with 'iof'.
C18_Witness ==
    /\ u_stage = "normalized"
    /\ TransferCase
    /\ u_previous.candidate.props.digits_modifier = <<s_third>>
    /\ u_result.candidate.props.digits_modifier[1] = s_third
    /\ u_result.previous_candidate.props.digits_modifier = <<>>
    /\ SubSeq(u_result.candidate.normalized_text, 1, 3) = <<"i", "o", "f">>

\* the values of a candidate's tokens: numerals as integers, month numbers,
\* cardinals of the modifiers
TokenValues(props) ==
    {ToInt(props.digits[k]) : k \in {j \in DOMAIN props.digits : IsDigitStr(props.digits[j])}}
    \cup MonthNumbers(props.months)
    \cup ({_ordinal_to_cardinal(props.digits_modifier[k]) : k \in DOMAIN props.digits_modifier}
              \ {0, NoInt})

\* the fields a date has: a datetime.date has neither hour nor minute
FieldsOf(date) ==
    IF date.kind = "datetime" THEN {"year", "month", "day", "hour", "minute"}
    ELSE {"year", "month", "day"}

\* the year's two-digit form occurs among the values, for a year above 1000
ShortYearMatch(date, values) == date.year > 1000 /\ (date.year % 100) \in values

\* a field is matched when its value, or for the year its two-digit form, occurs
\* among the token values
Matched(field, date, values) ==
    date[field] \in values \/ (field = "year" /\ ShortYearMatch(date, values))

\* a token value is a leftover when it equals no field of the date and was not
\* used as the two-digit year
Leftovers(date, values) ==
    {v \in values :
        /\ \A field \in FieldsOf(date) : date[field] # v
        /\ ~(ShortYearMatch(date, values) /\ v = date.year % 100)}

\* the month check passes: no month token maps to a number, or the date's month
\* is one of the numbers
MonthCheckPasses == 
    \/ MonthNumbers(u_candidate.props.months) = {}
    \/ u_date.month \in MonthNumbers(u_candidate.props.months)

\* C19: when the month check passes, the validator returns false exactly when
\* one of year, month, day of the date is unmatched and a token value is a
\* leftover.
C19_DecisionRule ==
    (u_stage = "validated" /\ MonthCheckPasses) =>
        LET values == TokenValues(u_candidate.props)
        IN  u_result = FALSE <=>
                /\ \E field \in {"year", "month", "day"} : ~Matched(field, u_date, values)
                /\ Leftovers(u_date, values) # {}

\* C19 witness: year, month and day of a midnight date-time are matched, its
\* hour and minute are not, a second month token is a leftover, and the
\* validator has returned true.
C19_Witness ==
    /\ u_stage = "validated"
    /\ MonthCheckPasses
    /\ u_date.kind = "datetime"
    /\ \A field \in {"year", "month", "day"} :
          Matched(field, u_date, TokenValues(u_candidate.props))
    /\ ~Matched("hour", u_date, TokenValues(u_candidate.props))
    /\ Leftovers(u_date, TokenValues(u_candidate.props)) # {}
    /\ u_result = TRUE

\* C20 as stated: for every date the validator accepts, each of year, month and
\* day is matched by a token value.
C20_AsStated ==
    (u_stage = "validated" /\ u_result = TRUE) =>
        \A field \in {"year", "month", "day"} :
            Matched(field, u_date, TokenValues(u_candidate.props))

\* C20, amended: for every date the validator accepts, each of year, month and
\* day is matched by a token value, or no token value is a leftover.
C20_AcceptedIsSupported ==
    (u_stage = "validated" /\ u_result = TRUE) =>
        \/ \A field \in {"year", "month", "day"} :
              Matched(field, u_date, TokenValues(u_candidate.props))
        \/ Leftovers(u_date, TokenValues(u_candidate.props)) = {}

\* C20 witness: the validator accepted a date whose year is matched only by its
\* two-digit form, with every field matched and a modifier left over.
C20_Witness ==
    /\ u_stage = "validated"
    /\ u_result = TRUE
    /\ u_date.year \notin TokenValues(u_candidate.props)
    /\ \A field \in {"year", "month", "day"} :
          Matched(field, u_date, TokenValues(u_candidate.props))
    /\ Leftovers(u_date, TokenValues(u_candidate.props)) # {}

\* the text _parse_candidate split for candidate i: the candidate's text as it
\* left the cleanup
ParsedText(i) == _normalize_tokens(entered[i]).normalized_text

\* the strings offered to the parser for candidate i, in order
OfferedTo(i) == [c \in DOMAIN calls[i] |-> calls[i][c].string]

\* the text without its last c tokens, and without its first c tokens
PrefixVariant(string, c) ==
    JoinWith(SubSeq(Split(string), 1, Len(Split(string)) - c), <<" ">>)

SuffixVariant(string, c) ==
    JoinWith(SubSeq(Split(string), c + 1, Len(Split(string))), <<" ">>)

\* the variants in the order stated: the text, then per cutter the prefix and
\* the suffix
StatedVariants(string) ==
    <<string>> \o
        [k \in 1..(2 * (Len(Split(string)) - 1)) |->
            IF k % 2 = 1 THEN PrefixVariant(string, (k + 1) \div 2)
            ELSE SuffixVariant(string, k \div 2)]

\* C21: the strings offered for a candidate are the first of the stated
\* variants, in that order (the text, then per cutter 1..n-1 the prefix and the
\* suffix); only the last one offered may have been answered with a date, and
\* that date is the result.
C21_WindowOrder ==
    \A i \in DOMAIN calls :
        calls[i] # <<>> =>
            LET stated == StatedVariants(ParsedText(i))
            IN  /\ Len(calls[i]) <= Len(stated)
                /\ OfferedTo(i) = SubSeq(stated, 1, Len(calls[i]))
                /\ \A c \in 1..(Len(calls[i]) - 1) : calls[i][c].answer # "date"
                /\ (calls[i][Len(calls[i])].answer = "date") = (returned[i].kind # "none")

\* C21 witness: the parser failed on the text of a candidate of three tokens
\* and was offered a second string.
C21_Witness ==
    \E i \in DOMAIN calls :
        /\ Len(Split(ParsedText(i))) = 3
        /\ Len(calls[i]) >= 2
        /\ calls[i][1].answer # "date"

\* C25: the untrimmed text is offered once; when the parser fails on it, the
\* next string offered is the text without its last token.
C25_UntrimmedOnce ==
    \A i \in DOMAIN calls :
        /\ Cardinality({c \in DOMAIN calls[i] : calls[i][c].string = ParsedText(i)}) <= 1
        /\ Len(calls[i]) >= 2 =>
              /\ Len(Split(ParsedText(i))) >= 2
              /\ calls[i][2].string = PrefixVariant(ParsedText(i), 1)

\* C25 witness: the parser failed on the untrimmed text and was called again.
C25_Witness ==
    \E i \in DOMAIN calls :
        /\ Len(calls[i]) >= 2
        /\ calls[i][1].string = ParsedText(i)
        /\ calls[i][1].answer = "none"

RECURSIVE Occurrences(_, _, _)
\* where the occurrences of a token start, found left to right from position p
\* without overlap
Occurrences(string, token, p) ==
    IF Len(token) = 0 \/ p + Len(token) - 1 > Len(string) THEN {}
    ELSE IF SubSeq(string, p, p + Len(token) - 1) = token
         THEN {p} \cup Occurrences(string, token, p + Len(token))
    ELSE Occurrences(string, token, p + 1)

\* the characters of a string at the positions kept, in their order
Kept(string, positions) ==
    [k \in 1..Cardinality(positions) |->
        string[CHOOSE q \in positions : Cardinality({r \in positions : r <= q}) = k]]

\* a string with every occurrence of a token taken out
Erased(string, token) ==
    LET starts == Occurrences(string, token, 1)
    IN  Kept(string, {q \in DOMAIN string :
                         ~\E p \in starts : p <= q /\ q < p + Len(token)})

\* a string without the blanks around it
Trimmed(string) ==
    LET solid == {q \in DOMAIN string : ~IsSpaceChar(string[q])}
    IN  IF solid = {} THEN <<>>
        ELSE SubSeq(string, CHOOSE q \in solid : \A r \in solid : q <= r,
                    CHOOSE q \in solid : \A r \in solid : q >= r)

\* the token is 'to' or 't' in any case
IsToToken(token) == Lower(token) \in {<<"t", "o">>, <<"t">>}

\* the orders in which the tokens can be taken longest first
LongestFirst(tokens) ==
    {order \in [DOMAIN tokens -> DOMAIN tokens] :
        /\ \A a, b \in DOMAIN tokens : a # b => order[a] # order[b]
        /\ \A a, b \in DOMAIN tokens :
              a < b => Len(tokens[order[a]]) >= Len(tokens[order[b]])}

RECURSIVE ErasedInOrder(_, _, _, _)
\* the string after the tokens other than 'to'/'t' were taken out one after
\* another, from position k of the order
ErasedInOrder(string, tokens, order, k) ==
    IF k > Len(tokens) THEN string
    ELSE IF IsToToken(tokens[order[k]]) THEN ErasedInOrder(string, tokens, order, k + 1)
    ELSE ErasedInOrder(Erased(string, tokens[order[k]]), tokens, order, k + 1)

\* C22: after the cleanup the candidate has no extra tokens and its text is the
\* old text with every occurrence of each extra token other than 'to'/'t' taken
\* out, longest token first, without the blanks around it; with only 'to'/'t'
\* tokens the text is just trimmed; a second cleanup changes nothing.
C22_CleanupResult ==
    /\ u_stage = "cleaned" =>
          LET tokens == u_candidate.props.extra_tokens
          IN  /\ u_result.props.extra_tokens = <<>>
              /\ \E order \in LongestFirst(tokens) :
                    u_result.normalized_text =
                        Trimmed(ErasedInOrder(u_candidate.normalized_text, tokens, order, 1))
              /\ (\A k \in DOMAIN tokens : IsToToken(tokens[k])) =>
                    u_result.normalized_text = Trimmed(u_candidate.normalized_text)
    /\ u_stage = "cleaned_again" => u_result = u_candidate

\* C22 witness: a candidate with 'of' and 'to' among its extra tokens was
\* cleaned: 'of' is gone from its text and 'to' is still there.
C22_Witness ==
    /\ u_stage = "cleaned"
    /\ \E k \in DOMAIN u_candidate.props.extra_tokens :
          IsToToken(u_candidate.props.extra_tokens[k])
    /\ s_of \in Range(u_candidate.props.extra_tokens)
    /\ Contains(u_candidate.normalized_text, s_of)
    /\ ~Contains(u_result.normalized_text, s_of)
    /\ Contains(u_result.normalized_text, s_to)

\* C23: the post-normalization pass returns exceeds_max_length exactly when the
\* text is longer than 40 characters; else digits_without_month exactly when
\* there is no month token and every delimiter character is a comma, a space, a
\* newline or a tab; else no rejection.
C23_PostNormalization ==
    u_stage = "post" =>
        LET long == Len(u_candidate.normalized_text) > 40
            delimiters == u_candidate.props.delimiters
            plain == \A i \in DOMAIN delimiters : \A j \in DOMAIN delimiters[i] :
                        delimiters[i][j] \in {",", " ", "\n", "\t"}
            bare == u_candidate.props.months = <<>> /\ plain
        IN  /\ (u_result = "exceeds_max_length") = long
            /\ ~long => ((u_result = "digits_without_month") = bare)
            /\ (~long /\ ~bare) => u_result = NoReason

\* C23 witness: a text of 41 characters with no month token and plain
\* delimiters was rejected as too long.
C23_Witness ==
    /\ u_stage = "post"
    /\ Len(u_candidate.normalized_text) = 41
    /\ u_candidate.props.months = <<>>
    /\ u_candidate.props.delimiters = <<<<",">>, <<" ">>>>
    /\ u_result = "exceeds_max_length"

\* the cases in which the normalizer has nothing to do: no 'of' among the extra
\* tokens (in any case of the letters), no previous candidate, a previous
\* outcome that was accepted, or a previous candidate without exactly one
\* modifier
NoOpCase ==
    \/ ~\E k \in DOMAIN u_candidate.props.extra_tokens :
            Lower(u_candidate.props.extra_tokens[k]) = s_of
    \/ ~u_previous.has
    \/ u_previous.accepted
    \/ Len(u_previous.candidate.props.digits_modifier) # 1

\* C24: in each of these cases the normalizer leaves the candidate's text and
\* props and the previous candidate's props as they were.
C24_NormalizerNoOp ==
    (u_stage = "normalized" /\ NoOpCase) =>
        /\ u_result.candidate.normalized_text = u_candidate.normalized_text
        /\ u_result.candidate.props = u_candidate.props
        /\ u_result.previous_candidate.props = u_previous.candidate.props

\* C24 witness: the candidate has an 'of' token and the previous candidate one
\* modifier, but the previous outcome was accepted, and the normalizer has run.
C24_Witness ==
    /\ u_stage = "normalized"
    /\ s_of \in Range(u_candidate.props.extra_tokens)
    /\ u_previous.has
    /\ u_previous.accepted
    /\ Len(u_previous.candidate.props.digits_modifier) = 1
    /\ u_result.candidate = u_candidate

\* the candidates the parser was or is being called for
AtParser == {i \in DOMAIN calls : calls[i] # <<>> \/ (pc = "parse" /\ i = Len(cands))}

\* the props the parser was or is being called with
CalledWith ==
    {m.key.props : m \in parsed} \cup (IF pc = "parse" THEN {current.props} ELSE {})

\* C26: a candidate the parser is called for has at most one month token, no
\* extra tokens, a text of at most 40 characters, no numeral of three digits or
\* starting with '00', a numeral whenever it has a modifier or a weekday, and a
\* month token or a delimiter character other than comma, space, newline and tab.
C26_ParserEntry ==
    /\ \A i \in AtParser : Len(cands[i].normalized_text) <= 40
    /\ \A props \in CalledWith :
          /\ Len(props.months) <= 1
          /\ props.extra_tokens = <<>>
          /\ \A k \in DOMAIN props.digits :
                /\ Len(props.digits[k]) # 3
                /\ ~(Len(props.digits[k]) >= 2 /\ props.digits[k][1] = "0"
                        /\ props.digits[k][2] = "0")
          /\ (props.digits_modifier # <<>> \/ props.days # <<>>) => props.digits # <<>>
          /\ \/ props.months # <<>>
             \/ \E k \in DOMAIN props.delimiters : \E j \in DOMAIN props.delimiters[k] :
                   props.delimiters[k][j] \notin {",", " ", "\n", "\t"}

\* C26 witness: the parser is being called for a candidate that came with an
\* extra token and received a modifier from its predecessor.
C26_Witness ==
    /\ pc = "parse"
    /\ tokenized[Len(cands)].props.extra_tokens # <<>>
    /\ current.props.digits_modifier # <<>>
    /\ current.props.digits # <<>>
    /\ current.props.extra_tokens = <<>>

\* C27: for a text of n tokens the parser is called at most 2n times, no string
\* offered to it is without a token, and when n = 0 it is not called and the
\* outcome is a rejection with parse_failure; the loops end.
C27_WindowTerminates ==
    \A i \in DOMAIN calls :
        LET n == Len(Split(cands[i].normalized_text))
        IN  /\ Len(calls[i]) <= 2 * n
            /\ \A c \in DOMAIN calls[i] : Len(Split(calls[i][c].string)) >= 1
            /\ (pc = "parse" /\ i = Len(cands)) => Len(calls[i]) < 2 * n
            /\ (n = 0 /\ u_stage = "parsing") =>
                  /\ pc # "parse"
                  /\ i \in DOMAIN outcomes
                  /\ ~outcomes[i].accepted
                  /\ outcomes[i].reason = "parse_failure"

\* C27 witness: the parser failed on all eight strings offered for a text of
\* four tokens, and the candidate was rejected.
C27_Witness ==
    /\ pc = YieldOutcome
    /\ Len(cands) = 1
    /\ Len(Split(cands[1].normalized_text)) = 4
    /\ Len(calls[1]) = 8
    /\ Len(outcomes) = 1
    /\ outcomes[1].reason = "parse_failure"

\* a text of blanks only was rejected without a call of the parser
BlankTextRejected ==
    /\ pc = YieldOutcome
    /\ Len(cands) = 1
    /\ Len(cands[1].normalized_text) > 0
    /\ Len(Split(cands[1].normalized_text)) = 0
    /\ calls[1] = <<>>
    /\ Len(outcomes) = 1
    /\ outcomes[1].reason = "parse_failure"

\* the strings of candidate i that were not offered to the parser
NotOffered(i) == Range(StatedVariants(cands[i].normalized_text)) \ Range(OfferedTo(i))

\* C28: when the first date the parser returns for a candidate fails the
\* validator, the outcome is date_parts_mismatch, also when the date's
\* isoformat() would raise, and the parser is not called again for that
\* candidate, whatever it would answer for the strings not yet offered.
C28_NoRetryAfterValidation ==
    /\ \A i \in DOMAIN outcomes :
          (pc = "score" /\ i = Len(outcomes) /\ returned[i].kind # "none"
              /\ ~check_date_parts_are_in_date(returned[i], cands[i].props)) =>
                  /\ ~outcomes[i].accepted
                  /\ outcomes[i].reason = "date_parts_mismatch"
                  /\ outcomes[i].date = NoDate
    /\ \A i \in DOMAIN calls :
          /\ Cardinality({c \in DOMAIN calls[i] : calls[i][c].answer = "date"}) <= 1
          /\ (returned[i].kind # "none") =>
                /\ calls[i][Len(calls[i])].answer = "date"
                /\ i \in DOMAIN outcomes
                /\ ~(pc = "parse" /\ i = Len(cands))

\* C28 witness: the first date returned for a candidate failed the validator
\* and its isoformat() would raise; strings were left that the parser was never
\* asked about, for which it may return a date that passes the validator, and
\* the call has ended.
C28_Witness ==
    /\ pc = "done"
    /\ \E i \in DOMAIN outcomes :
          /\ outcomes[i].reason = "date_parts_mismatch"
          /\ ~returned[i].tz_ok
          /\ \E string \in NotOffered(i) :
                /\ \A m \in parsed : m.key.string # string
                /\ \E d \in ParserDates :
                      /\ [kind |-> "date", date |-> d]
                            \in ParserAnswers(ParseKey(cands[i], string))
                      /\ check_date_parts_are_in_date(d, cands[i].props)

\* candidate i received a modifier from its predecessor
Received(i) == entered[i].props.digits_modifier # tokenized[i].props.digits_modifier

\* C29: a candidate that received a modifier and has no numeral of its own is
\* rejected by the first rejection pass, as multiple_month_tokens,
\* month_followed_by_word or modifier_without_digits, and the parser is not
\* called for it; an accepted candidate that received a modifier has a numeral.
C29_RepairNeedsNumeral ==
    /\ \A i \in DOMAIN entered :
          (Received(i) /\ tokenized[i].props.digits = <<>>) =>
              /\ calls[i] = <<>>
              /\ ~(pc = "parse" /\ i = Len(cands))
              /\ i \in DOMAIN outcomes
              /\ ~outcomes[i].accepted
              /\ outcomes[i].reason \in {"multiple_month_tokens", "month_followed_by_word",
                                          "modifier_without_digits"}
    /\ \A i \in DOMAIN outcomes :
          (Received(i) /\ outcomes[i].accepted) => tokenized[i].props.digits # <<>>

\* C29 witness: 'of June' received the modifier of '1st' and was rejected as
\* modifier_without_digits without a call of the parser.
C29_Witness ==
    \E i \in DOMAIN outcomes :
        /\ Received(i)
        /\ tokenized[i].props.months # <<>>
        /\ tokenized[i].props.digits = <<>>
        /\ outcomes[i].reason = "modifier_without_digits"
        /\ calls[i] = <<>>

\* candidate i has an 'of' among its extra tokens
HasOf(i) ==
    \E k \in DOMAIN tokenized[i].props.extra_tokens :
        Lower(tokenized[i].props.extra_tokens[k]) = s_of

\* the case of C30: candidate k-2 was rejected holding one modifier, candidate
\* k-1 has an 'of', no modifier of its own and was rejected, candidate k has an
\* 'of'
RelayCase(k) ==
    /\ k >= 3
    /\ k \in DOMAIN entered
    /\ ~outcomes[k - 2].accepted
    /\ Len(entered[k - 2].props.digits_modifier) = 1
    /\ HasOf(k - 1)
    /\ tokenized[k - 1].props.digits_modifier = <<>>
    /\ ~outcomes[k - 1].accepted
    /\ HasOf(k)

\* C30: in the relay case the modifier of candidate k-2 is the first modifier of
\* candidate k when the rejection engine sees it, and k's text is its raw text
\* with the modifier's cardinal, the token without its ordinal suffix, put
\* before it.
C30_ModifierRelay ==
    \A k \in DOMAIN entered :
        RelayCase(k) =>
            LET token == entered[k - 2].props.digits_modifier[1]
            IN  /\ entered[k].props.digits_modifier
                      = <<token>> \o tokenized[k].props.digits_modifier
                /\ entered[k].normalized_text
                      = WithoutOrdinalSuffix(token) \o tokenized[k].raw_text

\* C30 witness: 'third', 'of', 'of June 2017': the modifier of the first match
\* has reached the third candidate.
C30_Witness ==
    /\ RelayCase(3)
    /\ tokenized[1].props.digits_modifier = <<s_third>>
    /\ entered[3].props.digits_modifier = <<s_third>>

=============================================================================
